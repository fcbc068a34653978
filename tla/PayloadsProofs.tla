--------------------------- MODULE PayloadsProofs ---------------------------
(***************************************************************************)
(* Theorems about Payloads and the DnsMessage in it, for messages of every *)
(* length and for every value of the sizes.                                *)
(***************************************************************************)
EXTENDS Payloads, SequenceTheorems, WellFoundedInduction, TLAPS

\* A byte is a number, inside the data and outside.
LEMMA ByteType ==
  ASSUME data \in Seq(Bytes), NEW i \in Nat
  PROVE  Byte(i) \in Nat /\ Size \in Nat
<1>1. Bytes \subseteq Nat
  BY DnsMessageAssumption
<1>2. Size \in Nat
  BY DEF Size
<1>3. CASE i < Size
  <2>1. i + 1 \in 1..Len(data)
    BY <1>2, <1>3 DEF Size
  <2>2. data[i + 1] \in Bytes
    BY <2>1
  <2> QED
    BY <1>1, <1>2, <1>3, <2>2 DEF Byte
<1>4. CASE ~(i < Size)
  BY <1>2, <1>4 DEF Byte
<1> QED
  BY <1>3, <1>4

\* What is read up to an end inside the data leaves the reach inside.
LEMMA ReadsKeeps ==
  ASSUME NEW end \in Nat, Reads(end), reach \in Nat, Size \in Nat,
         reach <= Size, end <= Size
  PROVE  reach' \in Nat /\ reach' <= Size
BY DEF Reads

-----------------------------------------------------------------------------
\* The numbers of the parser are natural, and what was read is inside.
Inside ==
  /\ data \in Seq(Bytes)
  /\ offset \in Nat /\ pos \in Nat
  /\ reach \in Nat /\ reach <= Size

\* The parser of DNS responses, whatever turn it takes, stays inside.
LEMMA DnsStep ==
  ASSUME Inside, [Next]_vars
  PROVE  /\ data' = data /\ offset' \in Nat /\ pos' \in Nat
         /\ reach' \in Nat /\ reach' <= Size
<1>1. /\ data \in Seq(Bytes) /\ offset \in Nat /\ pos \in Nat /\ reach \in Nat
      /\ reach <= Size
  BY DEF Inside
<1>2. /\ HeaderSize \in Nat /\ QuestionSize \in Nat /\ RecordSize \in Nat
      /\ Pointer \in Nat /\ TypeAt \in Nat /\ LengthAt \in Nat
  BY DnsMessageAssumption
<1>3. /\ Size \in Nat /\ Byte(pos) \in Nat /\ Byte(pos + 1) \in Nat
      /\ Byte(offset) \in Nat /\ Byte(offset + LengthAt) \in Nat
  <2>1. pos + 1 \in Nat /\ offset + LengthAt \in Nat
    BY <1>1, <1>2
  <2> QED
    BY <1>1, <2>1, ByteType
<1>4. CASE Start
  <2>1. data' = data /\ offset' \in Nat /\ pos' \in Nat
    BY <1>1, <1>2, <1>4 DEF Start, GiveUp, message, name
  <2>2. CASE Size < HeaderSize
    <3>1. Reads(0)
      BY <1>4, <2>2 DEF Start
    <3> QED
      BY <1>1, <1>3, <2>1, <3>1, ReadsKeeps
  <2>3. CASE ~(Size < HeaderSize)
    <3>1. Reads(HeaderSize) /\ HeaderSize <= Size
      BY <1>1, <1>3, <1>2, <1>4, <2>3 DEF Start
    <3> QED
      BY <1>1, <1>3, <1>2, <2>1, <3>1, ReadsKeeps
  <2> QED
    BY <2>2, <2>3
<1>5. CASE ReadOutside \/ SkipOutside
  <2>1. Reads(0) /\ data' = data /\ offset' = offset /\ pos' = pos
    BY <1>5 DEF ReadOutside, SkipOutside, GiveUp, message, name
  <2> QED
    BY <1>1, <1>3, <2>1, ReadsKeeps
<1>6. CASE ReadRoot
  <2>1. Reads(pos + 1) /\ pos + 1 <= Size /\ pos + 1 \in Nat
    BY <1>1, <1>3, <1>6 DEF ReadRoot
  <2>2. data' = data /\ offset' \in Nat /\ pos' \in Nat
    BY <1>1, <1>2, <1>6 DEF ReadRoot, GiveUp, message, name
  <2> QED
    BY <1>1, <1>3, <2>1, <2>2, ReadsKeeps
<1>7. CASE ReadPointer
  <2>1. PointsTo(pos) \in Nat
    <3>1. Byte(pos) >= Pointer
      BY <1>7 DEF ReadPointer
    <3> QED
      BY <1>2, <1>3, <3>1 DEF PointsTo
  <2>2. data' = data /\ offset' \in Nat /\ pos' \in Nat
    BY <1>1, <1>7, <2>1 DEF ReadPointer, GiveUp, message, name
  <2>3. CASE pos + 1 >= Size
    <3>1. Reads(pos + 1) /\ pos + 1 <= Size
      BY <1>1, <1>3, <1>7, <2>3 DEF ReadPointer, PointerRead
    <3> QED
      BY <1>1, <1>3, <2>2, <3>1, ReadsKeeps
  <2>4. CASE ~(pos + 1 >= Size)
    <3>1. Reads(pos + 2) /\ pos + 2 <= Size
      BY <1>1, <1>3, <1>7, <2>4 DEF ReadPointer, PointerRead
    <3> QED
      BY <1>1, <1>3, <2>2, <3>1, ReadsKeeps
  <2> QED
    BY <2>3, <2>4
<1>8. CASE ReadLabel
  <2>1. data' = data /\ offset' = offset /\ pos' \in Nat
    <3>1. pos + 1 + Byte(pos) \in Nat
      BY <1>1, <1>3
    <3> QED
      BY <1>1, <1>8, <3>1 DEF ReadLabel, GiveUp, message, name
  <2>2. CASE pos + 1 + Byte(pos) > Size
    <3>1. Reads(pos + 1) /\ pos + 1 <= Size
      BY <1>1, <1>3, <1>8, <2>2 DEF ReadLabel
    <3> QED
      BY <1>1, <1>3, <2>1, <3>1, ReadsKeeps
  <2>3. CASE ~(pos + 1 + Byte(pos) > Size)
    <3>1. Reads(pos + 1 + Byte(pos)) /\ pos + 1 + Byte(pos) <= Size
      BY <1>1, <1>3, <1>8, <2>3 DEF ReadLabel
    <3>2. pos + 1 + Byte(pos) \in Nat
      BY <1>1, <1>3
    <3> QED
      BY <1>1, <1>3, <2>1, <3>1, <3>2, ReadsKeeps
  <2> QED
    BY <2>2, <2>3
<1>9. CASE SkipRoot \/ SkipPointer \/ SkipLabel
  <2>1. Reads(offset + 1) /\ offset + 1 <= Size /\ offset + 1 \in Nat
    BY <1>1, <1>3, <1>9 DEF SkipRoot, SkipPointer, SkipLabel
  <2>2. ASSUME NEW end \in Nat, Skipped(end)
        PROVE  data' = data /\ offset' \in Nat /\ pos' = pos
    BY <1>2, <2>2 DEF Skipped, message, name
  <2>3. ASSUME SkipRoot PROVE data' = data /\ offset' \in Nat /\ pos' = pos
    BY <2>1, <2>2, <2>3 DEF SkipRoot
  <2>4. ASSUME SkipPointer PROVE data' = data /\ offset' \in Nat /\ pos' = pos
    <3>1. Skipped(offset + 2) /\ offset + 2 \in Nat
      BY <1>1, <2>4 DEF SkipPointer
    <3> QED
      BY <2>2, <3>1
  <2>5. ASSUME SkipLabel PROVE data' = data /\ offset' \in Nat /\ pos' = pos
    BY <1>1, <1>3, <2>5 DEF SkipLabel, message, name
  <2> QED
    BY <1>1, <1>3, <1>9, <2>1, <2>3, <2>4, <2>5, ReadsKeeps
<1>10. CASE NextQuestion \/ NextAnswer
  <2>1. Reads(0) /\ data' = data /\ offset' = offset /\ pos' = pos
    BY <1>10 DEF NextQuestion, NextAnswer, Finish, message, name
  <2> QED
    BY <1>1, <1>3, <2>1, ReadsKeeps
<1>11. CASE ReadRecord
  <2> DEFINE rdata    == offset + RecordSize
             rdlength == Byte(offset + LengthAt)
  <2>1. rdata \in Nat /\ rdlength \in Nat /\ rdata + rdlength \in Nat
    BY <1>1, <1>3, <1>2
  <2>2. data' = data /\ offset' \in Nat /\ pos' = pos
    BY <1>1, <1>3, <1>11, <2>1 DEF ReadRecord, Finish, message, name
  <2>3. \E end \in Nat : Reads(end) /\ end <= Size
    <3>1. CASE rdata > Size
      BY <1>1, <1>3, <1>11, <3>1 DEF ReadRecord
    <3>2. CASE ~(rdata > Size) /\ rdata + rdlength > Size
      <4>1. Reads(rdata) /\ rdata <= Size
        BY <1>1, <1>3, <1>11, <2>1, <3>2 DEF ReadRecord
      <4> QED
        BY <2>1, <4>1
    <3>3. CASE ~(rdata > Size) /\ ~(rdata + rdlength > Size)
      <4>1. Reads(rdata + rdlength) \/ Reads(rdata + 0)
        BY <1>11, <3>3 DEF ReadRecord
      <4>2. rdata + rdlength <= Size /\ rdata + 0 <= Size /\ rdata + 0 \in Nat
        BY <1>1, <1>3, <2>1, <3>3
      <4> QED
        BY <2>1, <4>1, <4>2
    <3> QED
      BY <3>1, <3>2, <3>3
  <2> QED
    BY <1>1, <1>3, <2>2, <2>3, ReadsKeeps
<1>12. CASE Returned \/ UNCHANGED vars
  BY <1>1, <1>12 DEF Returned, vars
<1> QED
  BY <1>4, <1>5, <1>6, <1>7, <1>8, <1>9, <1>10, <1>11, <1>12 DEF Next

-----------------------------------------------------------------------------
\* A walk over the options tests that one fits before it reads it.
LEMMA WalkStep ==
  ASSUME Inside, at \in Nat, Header \/ Pad \/ WalkEnds \/ Option
  PROVE  at' \in Nat /\ Inside'
<1>1. /\ data \in Seq(Bytes) /\ offset \in Nat /\ pos \in Nat /\ reach \in Nat
      /\ reach <= Size
  BY DEF Inside
<1>2. Size \in Nat /\ Byte(at) \in Nat /\ Byte(at + 1) \in Nat
  <2>1. at \in Nat /\ at + 1 \in Nat
    OBVIOUS
  <2> QED
    BY <1>1, <2>1, ByteType
<1>3. ASSUME data' = data, offset' = offset, pos' = pos,
             NEW end \in Nat, Reads(end), end <= Size
      PROVE  Inside'
  <2>1. reach' \in Nat /\ reach' <= Size
    BY <1>1, <1>2, <1>3, ReadsKeeps
  <2> QED
    BY <1>1, <1>3, <2>1 DEF Inside, Size
<1>4. CASE Header
  BY <1>1, <1>4 DEF Header, vars, Inside, Size
<1>5. CASE Pad
  <2>1. /\ data' = data /\ offset' = offset /\ pos' = pos
        /\ Reads(at + 1) /\ at + 1 <= Size /\ at + 1 \in Nat /\ at' = at + 1
    BY <1>2, <1>5 DEF Pad, message, name
  <2> QED
    BY <1>3, <2>1
<1>6. CASE WalkEnds
  <2>1. data' = data /\ offset' = offset /\ pos' = pos /\ at' = 0
    BY <1>6 DEF WalkEnds, message, name
  <2>2. \E end \in Nat : Reads(end) /\ end <= Size
    <3>1. CASE Reads(0)
      BY <1>2, <3>1
    <3>2. CASE at < Size /\ Reads(at + 1)
      BY <1>2, <3>2
    <3>3. CASE at + 1 < Size /\ Reads(at + 2)
      BY <1>2, <3>3
    <3> QED
      BY <1>6, <3>1, <3>2, <3>3 DEF WalkEnds
  <2> QED
    BY <1>3, <2>1, <2>2
<1>7. CASE Option
  <2> DEFINE end == at + 2 + Byte(at + 1)
  <2>1. data' = data /\ offset' = offset /\ pos' = pos
    BY <1>7 DEF Option, message, name
  <2>2. end \in Nat /\ end <= Size /\ Reads(end)
    BY <1>2, <1>7 DEF Option, Truncated
  <2>3. at' = 0 \/ at' = end
    BY <1>7 DEF Option
  <2> QED
    BY <1>3, <2>1, <2>2, <2>3
<1> QED
  BY <1>4, <1>5, <1>6, <1>7

\* No payload makes a parser read outside its data, neither that of DNS responses
\* nor those of DHCP messages: none of them can end the capture thread.
THEOREM ReadsInsideHolds == PayloadSpec => []ReadsInside
<1> DEFINE PayloadInside == Inside /\ at \in Nat
<1>1. ASSUME PayloadInit PROVE PayloadInside
  <2>1. data \in Seq(Bytes)
    BY <1>1, DnsMessageAssumption, PayloadsAssumption DEF PayloadInit, Init
  <2>2. offset = 0 /\ pos = 0 /\ reach = 0 /\ at = 0
    BY <1>1 DEF PayloadInit, Init
  <2>3. Size \in Nat
    BY <2>1 DEF Size
  <2> QED
    BY <2>1, <2>2, <2>3 DEF Inside
<1>2. ASSUME PayloadInside, [PayloadNext]_allVars PROVE PayloadInside'
  <2>1. CASE [Next]_vars /\ UNCHANGED dhcpVars
    BY <1>2, <2>1, DnsStep DEF Inside, Size, dhcpVars
  <2>2. CASE Header \/ Pad \/ WalkEnds \/ Option
    BY <1>2, <2>2, WalkStep
  <2> QED
    BY <1>2, <2>1, <2>2 DEF PayloadNext, allVars
<1>3. PayloadInside => ReadsInside
  BY DEF Inside, ReadsInside
<1> QED
  BY <1>1, <1>2, <1>3, PTL DEF PayloadSpec

-----------------------------------------------------------------------------
(***************************************************************************)
(* The references are functions defined by recursion over the positions of *)
(* the message.  That such a function exists, and so has the values its    *)
(* definition says, follows from a measure that its calls diminish.        *)
(***************************************************************************)
\* Induction along a measure m, with sets for predicates.
LEMMA ByMeasure ==
  ASSUME NEW D, NEW m \in [D -> Nat], NEW P,
         \A d \in D : (\A e \in D : m[e] < m[d] => e \in P) => d \in P
  PROVE  D \subseteq P
<1> DEFINE Wrong == {m[d] : d \in D \ P}
           R == OpToRel(<, Nat)
<1>1. Wrong \subseteq Nat
  OBVIOUS
<1>2. SUFFICES ASSUME Wrong # {} PROVE FALSE
  OBVIOUS
<1>3. \A x, y \in Nat : x < y => <<x, y>> \in R
  BY DEF OpToRel
<1>4. PICK k \in Wrong : \A y \in Wrong : ~(<<y, k>> \in R)
  <2> HIDE DEF Wrong
  <2> QED
    BY <1>1, <1>2, WFMin, NatLessThanWellFounded
<1>5. PICK d \in D \ P : m[d] = k
  OBVIOUS
<1>6. ASSUME NEW e \in D, m[e] < m[d] PROVE e \in P
  <2>1. m[e] \notin Wrong
    <3> HIDE DEF Wrong, R
    <3> QED
      BY <1>1, <1>3, <1>4, <1>5, <1>6
  <2> QED
    BY <2>1
<1> QED
  BY <1>5, <1>6

\* G gives a function from a function, and at d looks at what has a smaller measure.
Descends(G, D, V, m) ==
  /\ G \in [[D -> V] -> [D -> V]] /\ m \in [D -> Nat]
  /\ \A f, g \in [D -> V] : \A d \in D :
       (\A e \in D : m[e] < m[d] => f[e] = g[e]) => G[f][d] = G[g][d]

\* What is defined so by recursion exists: up to a measure n by induction on n, and
\* the parts agree.
LEMMA Recursion ==
  ASSUME NEW G, NEW D, NEW V, NEW m, Descends(G, D, V, m), V # {}
  PROVE  \E f \in [D -> V] : f = G[f]
<1> DEFINE Upto(f, n) == \A d \in D : m[d] < n => f[d] = G[f][d]
           Has == {n \in Nat : \E f \in [D -> V] : Upto(f, n)}
<1>1. /\ G \in [[D -> V] -> [D -> V]] /\ m \in [D -> Nat]
      /\ \A f \in [D -> V] : G[f] \in [D -> V]
  BY DEF Descends
<1>2. ASSUME NEW n \in Nat, NEW f \in [D -> V], NEW g \in [D -> V], Upto(f, n), Upto(g, n)
      PROVE  \A d \in D : m[d] < n => f[d] = g[d]
  <2> DEFINE P == {d \in D : m[d] < n => f[d] = g[d]}
  <2>1. ASSUME NEW d \in D, \A e \in D : m[e] < m[d] => e \in P
        PROVE  d \in P
    <3> SUFFICES ASSUME m[d] < n PROVE f[d] = g[d]
      OBVIOUS
    <3>1. \A e \in D : m[e] < m[d] => f[e] = g[e]
      <4> SUFFICES ASSUME NEW e \in D, m[e] < m[d] PROVE f[e] = g[e]
        OBVIOUS
      <4>1. m[e] \in Nat /\ m[d] \in Nat /\ m[e] < n
        BY <1>1
      <4> QED
        BY <2>1, <4>1
    <3>2. G[f][d] = G[g][d]
      BY <3>1 DEF Descends
    <3> QED
      BY <1>2, <3>2
  <2>2. D \subseteq P
    <3> HIDE DEF P
    <3> QED
      BY <1>1, <2>1, ByMeasure
  <2> QED
    BY <2>2
<1>3. \A n \in Nat : n \in Has
  <2> DEFINE id == [n \in Nat |-> n]
  <2>1. ASSUME NEW n \in Nat, \A k \in Nat : id[k] < id[n] => k \in Has
        PROVE  n \in Has
    <3>1. CASE n = 0
      <4>1. PICK v \in V : TRUE
        OBVIOUS
      <4>2. [d \in D |-> v] \in [D -> V] /\ Upto([d \in D |-> v], n)
        BY <1>1, <3>1
      <4> QED
        BY <4>2
    <3>2. CASE n # 0
      <4>1. n - 1 \in Nat /\ n - 1 < n
        BY <3>2
      <4>2. PICK f \in [D -> V] : Upto(f, n - 1)
        BY <2>1, <4>1
      <4>3. PICK g \in [D -> V] : g = G[f]
        BY <1>1
      <4>4. ASSUME NEW d \in D, m[d] < n PROVE g[d] = G[g][d]
        <5>1. \A e \in D : m[e] < m[d] => f[e] = g[e]
          <6> SUFFICES ASSUME NEW e \in D, m[e] < m[d] PROVE f[e] = g[e]
            OBVIOUS
          <6>1. m[e] \in Nat /\ m[d] \in Nat
            BY <1>1
          <6>2. m[e] < n - 1
            BY <4>4, <6>1
          <6> QED
            BY <4>2, <4>3, <6>2
        <5>2. G[f][d] = G[g][d]
          BY <5>1 DEF Descends
        <5> QED
          BY <4>3, <5>2
      <4> QED
        BY <4>4
    <3> QED
      BY <3>1, <3>2
  <2>2. id \in [Nat -> Nat]
    OBVIOUS
  <2>3. Nat \subseteq Has
    <3> HIDE DEF id, Has
    <3> QED
      BY <2>1, <2>2, ByMeasure
  <2> QED
    BY <2>3
<1> DEFINE Best(n) == CHOOSE f \in [D -> V] : Upto(f, n)
           whole == [d \in D |-> Best(m[d] + 1)[d]]
<1>4. \A n \in Nat : Best(n) \in [D -> V] /\ Upto(Best(n), n)
  <2> SUFFICES ASSUME NEW n \in Nat PROVE Best(n) \in [D -> V] /\ Upto(Best(n), n)
    OBVIOUS
  <2>1. \E f \in [D -> V] : Upto(f, n)
    BY <1>3
  <2> HIDE DEF Upto
  <2> QED
    BY <2>1
<1>5. whole \in [D -> V]
  <2> HIDE DEF Best
  <2> QED
    BY <1>1, <1>4
<1>6. ASSUME NEW d \in D PROVE whole[d] = G[whole][d]
  <2>1. PICK n \in Nat : n = m[d] + 1 /\ m[d] < n /\ m[d] \in Nat
    BY <1>1
  <2>2. PICK b \in [D -> V] : b = Best(n) /\ Upto(b, n)
    BY <1>4
  <2>3. ASSUME NEW e \in D, m[e] < m[d] PROVE whole[e] = b[e]
    <3>1. PICK k \in Nat : k = m[e] + 1 /\ m[e] < k /\ k <= n
      BY <1>1, <2>1, <2>3
    <3>2. PICK c \in [D -> V] : c = Best(k) /\ Upto(c, k)
      BY <1>4
    <3>3. Upto(b, k)
      <4> SUFFICES ASSUME NEW x \in D, m[x] < k PROVE b[x] = G[b][x]
        OBVIOUS
      <4>1. m[x] < n
        BY <1>1, <3>1
      <4> QED
        BY <2>2, <4>1
    <3>4. c[e] = b[e]
      <4> HIDE DEF Upto, Best
      <4> QED
        BY <1>2, <2>2, <3>1, <3>2, <3>3
    <3>5. whole[e] = Best(k)[e]
      BY <3>1
    <3> QED
      BY <3>2, <3>4, <3>5
  <2>4. G[whole][d] = G[b][d]
    <3> HIDE DEF whole, Best, Upto
    <3> QED
      BY <1>5, <2>2, <2>3 DEF Descends
  <2>5. whole[d] = b[d]
    BY <2>1, <2>2
  <2>6. b[d] = G[b][d]
    BY <2>1, <2>2
  <2> QED
    BY <2>4, <2>5, <2>6
<1>7. whole = G[whole]
  <2>1. G[whole] \in [D -> V]
    <3> HIDE DEF whole
    <3> QED
      BY <1>1, <1>5
  <2> HIDE DEF whole
  <2> QED
    BY <1>5, <1>6, <2>1
<1> QED
  BY <1>5, <1>7

-----------------------------------------------------------------------------
(***************************************************************************)
(* The walks over the options.                                             *)
(***************************************************************************)
\* What is left of the data at i.
Left == [i \in Nat |-> IF i >= Size THEN 0 ELSE Size - i]

\* The cases of the definition of OptionsAt.
Over(i)  == i >= Size \/ Byte(i) = CodeEnd
Cut(i)   == i + 1 >= Size \/ i + 2 + Byte(i + 1) > Size
After(i) == i + 2 + Byte(i + 1)

LEMMA Leaves ==
  ASSUME data \in Seq(Bytes)
  PROVE  /\ Left \in [Nat -> Nat]
         /\ \A i, j \in Nat : ~(i >= Size) /\ i < j => Left[j] < Left[i]
         /\ \A i \in Nat : Byte(i) \in Nat /\ After(i) \in Nat /\ i < After(i)
<1>1. Size \in Nat
  BY ByteType
<1>2. \A i \in Nat : Byte(i) \in Nat
  BY ByteType
<1>3. Left \in [Nat -> Nat]
  BY <1>1 DEF Left
<1>4. ASSUME NEW i \in Nat, NEW j \in Nat, ~(i >= Size), i < j PROVE Left[j] < Left[i]
  BY <1>1, <1>4 DEF Left
<1>5. \A i \in Nat : Byte(i + 1) \in Nat
  BY <1>2
<1>6. \A i \in Nat : After(i) \in Nat /\ i < After(i)
  BY <1>5 DEF After
<1> QED
  BY <1>2, <1>3, <1>4, <1>6

LEMMA OptionsAre ==
  ASSUME data \in Seq(Bytes)
  PROVE  \A i \in Nat : OptionsAt[i] =
           IF Over(i) THEN {}
           ELSE IF Byte(i) = 0 THEN OptionsAt[i + 1]
           ELSE IF Cut(i) THEN {}
           ELSE {i} \cup OptionsAt[After(i)]
<1> DEFINE V == SUBSET Nat
           Body(f, i) == IF Over(i) THEN {}
                         ELSE IF Byte(i) = 0 THEN f[i + 1]
                         ELSE IF Cut(i) THEN {}
                         ELSE {i} \cup f[After(i)]
           G == [f \in [Nat -> V] |-> [i \in Nat |-> Body(f, i)]]
<1>1. ASSUME NEW f \in [Nat -> V], NEW i \in Nat PROVE Body(f, i) \in V
  <2>1. After(i) \in Nat
    BY Leaves
  <2>2. f[i + 1] \subseteq Nat /\ f[After(i)] \subseteq Nat
    BY <2>1
  <2> QED
    BY <2>2
<1>2. G \in [[Nat -> V] -> [Nat -> V]]
  <2> HIDE DEF Body, V
  <2> QED
    BY <1>1
<1>3. ASSUME NEW f \in [Nat -> V], NEW g \in [Nat -> V], NEW i \in Nat,
             \A e \in Nat : Left[e] < Left[i] => f[e] = g[e]
      PROVE  G[f][i] = G[g][i]
  <2>1. ASSUME ~Over(i) PROVE f[i + 1] = g[i + 1] /\ f[After(i)] = g[After(i)]
    <3>1. PICK j \in Nat : j = i + 1 /\ i < j
      OBVIOUS
    <3>2. PICK k \in Nat : k = After(i) /\ i < k
      BY Leaves
    <3>3. Left[j] < Left[i] /\ Left[k] < Left[i]
      BY <2>1, <3>1, <3>2, Leaves DEF Over
    <3>4. f[j] = g[j] /\ f[k] = g[k]
      BY <1>3, <3>3
    <3> QED
      BY <3>1, <3>2, <3>4
  <2>2. Body(f, i) = Body(g, i)
    BY <2>1
  <2> HIDE DEF Body, V
  <2> QED
    BY <2>2
<1>4. Descends(G, Nat, V, Left)
  <2> HIDE DEF G, V
  <2> QED
    BY <1>2, <1>3, Leaves DEF Descends
<1>5. \E f : f = [i \in Nat |-> Body(f, i)]
  <2>1. PICK f \in [Nat -> V] : f = G[f]
    <3> HIDE DEF G, V
    <3>1. V # {}
      BY DEF V
    <3> QED
      BY <1>4, <3>1, Recursion
  <2>2. f = [i \in Nat |-> Body(f, i)]
    <3> HIDE DEF Body, V
    <3> QED
      BY <2>1
  <2> QED
    BY <2>2
<1>6. OptionsAt = [i \in Nat |-> Body(OptionsAt, i)]
  BY <1>5 DEF OptionsAt, Over, Cut, After
<1> HIDE DEF G, V
<1> QED
  BY <1>6

\* An option is read where it begins or later.
LEMMA OptionsBelow ==
  ASSUME data \in Seq(Bytes)
  PROVE  \A i \in Nat : OptionsAt[i] \subseteq {j \in Nat : i <= j /\ j < Size}
<1> DEFINE From(i) == {j \in Nat : i <= j /\ j < Size}
           P == {i \in Nat : OptionsAt[i] \subseteq From(i)}
<1>1. ASSUME NEW i \in Nat, \A e \in Nat : Left[e] < Left[i] => e \in P
      PROVE  i \in P
  <2>1. CASE Over(i) \/ (Byte(i) # 0 /\ Cut(i))
    BY <2>1, OptionsAre
  <2>2. CASE ~Over(i) /\ (Byte(i) # 0 => ~Cut(i))
    <3>1. PICK j \in Nat : j = (IF Byte(i) = 0 THEN i + 1 ELSE After(i))
      <4>1. After(i) \in Nat
        BY Leaves
      <4> QED
        BY <4>1
    <3>2. i < j /\ i < Size /\ Size \in Nat
      BY <2>2, <3>1, Leaves, ByteType DEF Over
    <3>3. OptionsAt[i] = IF Byte(i) = 0 THEN OptionsAt[j] ELSE {i} \cup OptionsAt[j]
      BY <2>2, <3>1, OptionsAre
    <3>4. OptionsAt[j] \subseteq From(j)
      <4>1. Left[j] < Left[i]
        BY <3>2, Leaves
      <4> QED
        BY <1>1, <4>1
    <3>5. From(j) \subseteq From(i) /\ i \in From(i)
      BY <3>2
    <3> HIDE DEF From
    <3> QED
      BY <3>3, <3>4, <3>5
  <2> QED
    BY <2>1, <2>2
<1>2. Nat \subseteq P
  <2> HIDE DEF P
  <2> QED
    BY <1>1, Leaves, ByMeasure
<1> QED
  BY <1>2

\* The options the walk has passed, and what it has of them.
Past == {i \in OptionsAt[0] : i < at}

Request == valid /\ op = (IF ports = "probe" THEN 2 ELSE 1)

\* The inductive invariant: an option is past or ahead, and what was kept is what
\* those that are past say.
OptionsKept ==
  /\ data \in Seq(Bytes) /\ at \in Nat
  /\ walk \in {"start", "params", "name", "done"}
  /\ walk = "start" => at = 0
  /\ walk \in {"params", "name"} => Request /\ Dhcp /\ OptionsAt[0] = Past \cup OptionsAt[at]
  /\ walk = "name" => ports = "client"
  /\ fingerprint =
       IF walk = "params" THEN FirstOf(Parameters \cap Past)
       ELSE IF walk # "start" /\ Request THEN FirstOf(Parameters) ELSE <<>>
  /\ walk = "params" => fingerprint = <<>>
  /\ hostname =
       IF walk = "name" THEN LastOf(Names \cap Past)
       ELSE IF walk = "done" /\ Request /\ ports = "client" THEN LastOf(Names) ELSE <<>>
  /\ requested =
       IF ciaddr THEN <<>>
       ELSE IF walk = "name" THEN FirstOf(Addresses \cap Past)
       ELSE IF walk = "done" /\ Request /\ ports = "client" THEN FirstOf(Addresses) ELSE <<>>

\* The data stays, and with it what its options are and say.
LEMMA OptionsStay ==
  ASSUME data' = data
  PROVE  /\ OptionsAt' = OptionsAt /\ Parameters' = Parameters
         /\ Names' = Names /\ Addresses' = Addresses
<1>1. OptionsAt' = OptionsAt
  BY DEF OptionsAt, Byte, Size
<1> QED
  BY <1>1 DEF Parameters, Names, Addresses, IsName, IsText, Byte, Size

LEMMA OptionsSay ==
  ASSUME data' = data, Parameters' = Parameters, Names' = Names, Addresses' = Addresses
  PROVE  /\ FirstOf(Parameters)' = FirstOf(Parameters)
         /\ FirstOf(Parameters \cap Past)' = FirstOf(Parameters \cap Past')
         /\ LastOf(Names)' = LastOf(Names)
         /\ LastOf(Names \cap Past)' = LastOf(Names \cap Past')
         /\ FirstOf(Addresses)' = FirstOf(Addresses)
         /\ FirstOf(Addresses \cap Past)' = FirstOf(Addresses \cap Past')
BY DEF FirstOf, LastOf, Value, Byte, Size

\* Every set of numbers has a least one.
LEMMA LeastExists ==
  ASSUME NEW T, T \subseteq Nat, T # {}
  PROVE  \E x \in T : \A y \in T : x <= y
<1> DEFINE m == [n \in Nat |-> n]
           P == {n \in Nat : n \notin T}
<1> SUFFICES ASSUME \A x \in T : \E y \in T : ~(x <= y) PROVE FALSE
  OBVIOUS
<1>1. ASSUME NEW n \in Nat, \A k \in Nat : m[k] < m[n] => k \in P PROVE n \in P
  <2> SUFFICES ASSUME n \in T PROVE FALSE
    OBVIOUS
  <2>1. PICK k \in T : ~(n <= k)
    OBVIOUS
  <2> QED
    BY <1>1, <2>1
<1>2. m \in [Nat -> Nat]
  OBVIOUS
<1>3. Nat \subseteq P
  <2> HIDE DEF m, P
  <2> QED
    BY <1>1, <1>2, ByMeasure
<1> QED
  BY <1>3

\* The first of the options is the smallest, the last the largest.
LEMMA FirstIs ==
  ASSUME NEW I, I \subseteq Nat, NEW i \in I, \A j \in I : i <= j
  PROVE  FirstOf(I) = <<Value(i)>>
<1>1. Min(I) = i
  <2>1. \A x \in I : (\A y \in I : x <= y) => x = i
    OBVIOUS
  <2> QED
    BY <2>1 DEF Min
<1> QED
  BY <1>1 DEF FirstOf

LEMMA LastIs ==
  ASSUME NEW I, I \subseteq Nat, NEW i \in I, \A j \in I : j <= i
  PROVE  LastOf(I) = <<Value(i)>>
<1>1. Max(I) = i
  <2>1. \A x \in I : (\A y \in I : x >= y) => x = i
    OBVIOUS
  <2> QED
    BY <2>1 DEF Max
<1> QED
  BY <1>1 DEF LastOf

\* A later option changes the first only if there was none.
LEMMA FirstStays ==
  ASSUME NEW I, I \subseteq Nat, NEW i \in Nat, \A j \in I : j < i
  PROVE  FirstOf(I \cup {i}) = IF FirstOf(I) = <<>> THEN <<Value(i)>> ELSE FirstOf(I)
<1>1. CASE I = {}
  <2>1. FirstOf(I) = <<>> /\ I \cup {i} = {i}
    BY <1>1 DEF FirstOf
  <2>2. FirstOf({i}) = <<Value(i)>>
    BY FirstIs
  <2> QED
    BY <2>1, <2>2
<1>2. CASE I # {}
  <2>1. PICK k \in I : \A j \in I : k <= j
    BY <1>2, LeastExists
  <2>2. FirstOf(I) = <<Value(k)>>
    BY <2>1, FirstIs
  <2>3. I \cup {i} \subseteq Nat /\ k \in I \cup {i} /\ \A j \in I \cup {i} : k <= j
    BY <2>1
  <2>4. FirstOf(I \cup {i}) = <<Value(k)>>
    BY <2>3, FirstIs
  <2> QED
    BY <2>2, <2>4
<1> QED
  BY <1>1, <1>2

\* The walk that begins has nothing behind it.
LEMMA NonePast ==
  at = 0 /\ data \in Seq(Bytes) => Past = {} /\ OptionsAt[0] = Past \cup OptionsAt[at]
BY OptionsBelow DEF Past

\* Where the walk stands, there is padding, an option, or the end.
LEMMA PastGrows ==
  ASSUME data \in Seq(Bytes), at \in Nat, OptionsAt[0] = Past \cup OptionsAt[at]
  PROVE  /\ (Over(at) \/ (Byte(at) # 0 /\ Cut(at))) => OptionsAt[0] = Past
         /\ ~Over(at) /\ Byte(at) = 0 =>
              /\ Past = {i \in OptionsAt[0] : i < at + 1}
              /\ OptionsAt[0] = Past \cup OptionsAt[at + 1]
         /\ ~Over(at) /\ Byte(at) # 0 /\ ~Cut(at) =>
              /\ Past \cup {at} = {i \in OptionsAt[0] : i < After(at)}
              /\ OptionsAt[0] = (Past \cup {at}) \cup OptionsAt[After(at)]
<1>1. \A i \in Past : i < at /\ i \in Nat
  BY OptionsBelow DEF Past
<1>2. ASSUME Over(at) \/ (Byte(at) # 0 /\ Cut(at)) PROVE OptionsAt[0] = Past
  BY <1>2, OptionsAre
<1>3. ASSUME ~Over(at), Byte(at) = 0
      PROVE  /\ Past = {i \in OptionsAt[0] : i < at + 1}
             /\ OptionsAt[0] = Past \cup OptionsAt[at + 1]
  <2>1. OptionsAt[0] = Past \cup OptionsAt[at + 1]
    BY <1>3, OptionsAre
  <2>2. \A i \in OptionsAt[at + 1] : i \in Nat /\ at + 1 <= i
    BY OptionsBelow
  <2> QED
    BY <1>1, <2>1, <2>2
<1>4. ASSUME ~Over(at), Byte(at) # 0, ~Cut(at)
      PROVE  /\ Past \cup {at} = {i \in OptionsAt[0] : i < After(at)}
             /\ OptionsAt[0] = (Past \cup {at}) \cup OptionsAt[After(at)]
  <2>1. PICK k \in Nat : k = After(at) /\ at < k
    BY Leaves
  <2>2. OptionsAt[0] = (Past \cup {at}) \cup OptionsAt[k]
    BY <1>4, <2>1, OptionsAre
  <2>3. \A i \in OptionsAt[k] : i \in Nat /\ k <= i
    BY OptionsBelow
  <2>4. Past \cup {at} = {i \in OptionsAt[0] : i < k}
    BY <1>1, <2>1, <2>2, <2>3
  <2> QED
    BY <2>1, <2>2, <2>4
<1> QED
  BY <1>2, <1>3, <1>4

LEMMA OptionsInit == PayloadInit => OptionsKept
<1> SUFFICES ASSUME PayloadInit PROVE OptionsKept
  OBVIOUS
<1>1. data \in Seq(Bytes)
  BY DnsMessageAssumption, PayloadsAssumption DEF PayloadInit, Init
<1> QED
  BY <1>1 DEF PayloadInit, OptionsKept

LEMMA OptionsStep ==
  ASSUME OptionsKept, Header \/ Pad \/ WalkEnds \/ Option
  PROVE  OptionsKept'
<1>1. data' = data /\ ports' = ports /\ op' = op /\ valid' = valid /\ ciaddr' = ciaddr
  BY DEF Header, Pad, WalkEnds, Option, vars, message
<1>2. /\ data \in Seq(Bytes) /\ at \in Nat /\ Byte(at) \in Nat
      /\ Request' = Request /\ Dhcp' = Dhcp
  BY <1>1, ByteType DEF OptionsKept, Request, Dhcp
<1>3. /\ OptionsAt' = OptionsAt /\ Parameters' = Parameters
      /\ Names' = Names /\ Addresses' = Addresses
  BY <1>1, OptionsStay
<1>4. /\ FirstOf(Parameters)' = FirstOf(Parameters)
      /\ FirstOf(Parameters \cap Past)' = FirstOf(Parameters \cap Past')
      /\ LastOf(Names)' = LastOf(Names)
      /\ LastOf(Names \cap Past)' = LastOf(Names \cap Past')
      /\ FirstOf(Addresses)' = FirstOf(Addresses)
      /\ FirstOf(Addresses \cap Past)' = FirstOf(Addresses \cap Past')
  BY <1>1, <1>3, OptionsSay
<1>5. Past' = {i \in OptionsAt[0] : i < at'}
  BY <1>3 DEF Past
<1>6. FirstOf({}) = <<>> /\ LastOf({}) = <<>>
  BY DEF FirstOf, LastOf
<1>7. /\ Parameters \subseteq OptionsAt[0] /\ Names \subseteq OptionsAt[0]
      /\ Addresses \subseteq OptionsAt[0] /\ OptionsAt[0] \subseteq Nat
  BY <1>2, OptionsBelow DEF Parameters, Names, Addresses
<1>8. at' = 0 => Past' = {} /\ OptionsAt[0] = Past' \cup OptionsAt[at']
  BY <1>5, <1>7
<1>9. CASE Header
  <2>1. at' = 0 /\ walk' = (IF Request THEN "params" ELSE "done") /\ Dhcp
    BY <1>9 DEF Header, OptionsKept, Request
  <2>2. /\ fingerprint' = <<>> /\ hostname' = <<>> /\ requested' = <<>>
    BY <1>9 DEF Header, OptionsKept
  <2> QED
    BY <1>1, <1>2, <1>3, <1>4, <1>6, <1>8, <2>1, <2>2 DEF OptionsKept
<1>10. CASE Pad
  <2>1. /\ walk \in {"params", "name"} /\ OptionsAt[0] = Past \cup OptionsAt[at]
        /\ ~Over(at) /\ Byte(at) = 0 /\ at' = at + 1
    <3>1. Size \in Nat /\ CodeEnd # 0
      BY <1>2, ByteType, PayloadsAssumption
    <3> QED
      BY <1>2, <1>10, <3>1 DEF Pad, Walking, OptionsKept, Over
  <2>2. Past' = Past /\ OptionsAt[0] = Past' \cup OptionsAt[at'] /\ at' \in Nat
    BY <1>2, <1>5, <2>1, PastGrows
  <2>3. /\ walk' = walk /\ fingerprint' = fingerprint /\ hostname' = hostname
        /\ requested' = requested
    BY <1>10 DEF Pad
  <2> QED
    BY <1>1, <1>2, <1>3, <1>4, <2>1, <2>2, <2>3 DEF OptionsKept
<1>11. CASE WalkEnds
  <2>1. /\ walk \in {"params", "name"} /\ OptionsAt[0] = Past \cup OptionsAt[at]
        /\ Over(at) \/ (Byte(at) # 0 /\ Cut(at))
        /\ at' = 0 /\ NextWalk
    BY <1>2, <1>11 DEF WalkEnds, Walking, OptionsKept, Over, Cut, Truncated
  <2>2. /\ Parameters \cap Past = Parameters /\ Names \cap Past = Names
        /\ Addresses \cap Past = Addresses
    BY <1>2, <1>7, <2>1, PastGrows
  <2>3. fingerprint' = fingerprint /\ hostname' = hostname /\ requested' = requested
    BY <1>11 DEF WalkEnds
  <2>4. Request /\ Dhcp
    BY <2>1 DEF OptionsKept
  <2>5. CASE walk = "params"
    <3>1. /\ fingerprint = FirstOf(Parameters) /\ hostname = <<>> /\ requested = <<>>
      BY <2>2, <2>5 DEF OptionsKept
    <3>2. walk' = IF ports = "client" THEN "name" ELSE "done"
      BY <2>1, <2>5 DEF NextWalk
    <3> QED
      BY <1>1, <1>2, <1>3, <1>4, <1>6, <1>8, <2>1, <2>3, <2>4, <3>1, <3>2 DEF OptionsKept
  <2>6. CASE walk = "name"
    <3>1. /\ fingerprint = FirstOf(Parameters) /\ hostname = LastOf(Names)
          /\ requested = (IF ciaddr THEN <<>> ELSE FirstOf(Addresses)) /\ ports = "client"
      BY <2>2, <2>4, <2>6 DEF OptionsKept
    <3>2. walk' = "done"
      BY <2>1, <2>6 DEF NextWalk
    <3> QED
      BY <1>1, <1>2, <1>3, <1>4, <2>1, <2>3, <2>4, <3>1, <3>2 DEF OptionsKept
  <2> QED
    BY <2>1, <2>5, <2>6
<1>12. CASE Option
  <2>1. /\ walk \in {"params", "name"} /\ OptionsAt[0] = Past \cup OptionsAt[at]
        /\ ~Over(at) /\ Byte(at) # 0 /\ ~Cut(at) /\ Request /\ Dhcp
    <3>1. Size \in Nat
      BY <1>2, ByteType
    <3>2. walk \in {"params", "name"} /\ at < Size /\ Byte(at) \notin {0, CodeEnd} /\ ~Truncated
      BY <1>12 DEF Option, Walking
    <3> QED
      BY <1>2, <3>1, <3>2 DEF OptionsKept, Over, Cut, Truncated
  <2>2. /\ Past \cup {at} = {i \in OptionsAt[0] : i < After(at)}
        /\ OptionsAt[0] = (Past \cup {at}) \cup OptionsAt[After(at)]
    BY <1>2, <2>1, PastGrows
  <2>3. /\ Takes(Byte(at), Value(at))
        /\ IF fingerprint' # fingerprint
             THEN NextWalk /\ at' = 0
             ELSE walk' = walk /\ at' = After(at)
    BY <1>12 DEF Option, Value, After
  <2>4. at' = After(at) => /\ Past' = Past \cup {at}
                           /\ OptionsAt[0] = Past' \cup OptionsAt[at']
    BY <1>5, <2>2
  <2>5. After(at) \in Nat /\ Value(at)[2] = Byte(at + 1) /\ Value(at)[1] = at + 2
    BY <1>2, Leaves DEF Value
  <2>6. \A i \in Past : i < at
    BY DEF Past
  <2>7. at \in OptionsAt[0] /\ \A i \in OptionsAt[0] : i \in Past \/ at <= i
    <3>1. PICK k \in Nat : k = After(at) /\ at < k
      BY <1>2, Leaves
    <3>2. \A i \in OptionsAt[k] : i \in Nat /\ at <= i
      BY <1>2, <3>1, OptionsBelow
    <3> QED
      BY <1>2, <2>2, <3>1, <3>2
  <2>8. CASE walk = "params"
    <3>1. /\ fingerprint = FirstOf(Parameters \cap Past) /\ fingerprint = <<>>
          /\ hostname = <<>> /\ requested = <<>>
      BY <2>8 DEF OptionsKept
    <3>2. Parameters \cap Past = {}
      BY <3>1 DEF FirstOf
    <3>3. hostname' = <<>> /\ requested' = <<>>
      BY <2>3, <2>8, <3>1 DEF Takes
    <3>4. CASE at \in Parameters
      <4>1. fingerprint' = <<Value(at)>>
        BY <2>3, <2>5, <2>8, <3>4 DEF Takes, Parameters
      <4>2. FirstOf(Parameters) = <<Value(at)>>
        BY <1>7, <2>7, <3>2, <3>4, FirstIs
      <4>3. walk' = (IF ports = "client" THEN "name" ELSE "done") /\ at' = 0
        BY <2>3, <2>8, <3>1, <4>1 DEF NextWalk
      <4> QED
        BY <1>1, <1>2, <1>3, <1>4, <1>6, <1>8, <2>1, <3>3, <4>1, <4>2, <4>3 DEF OptionsKept
    <3>5. CASE at \notin Parameters
      <4>1. fingerprint' = <<>>
        BY <2>3, <2>5, <2>7, <2>8, <3>1, <3>5 DEF Takes, Parameters
      <4>2. walk' = "params" /\ at' = After(at)
        BY <2>3, <2>8, <3>1, <4>1
      <4>3. Parameters \cap Past' = {}
        BY <2>4, <3>2, <3>5, <4>2
      <4> QED
        BY <1>1, <1>2, <1>3, <1>4, <1>6, <2>1, <2>4, <2>5, <3>3, <4>1, <4>2, <4>3
          DEF OptionsKept
    <3> QED
      BY <3>4, <3>5
  <2>9. CASE walk = "name"
    <3>1. /\ fingerprint = FirstOf(Parameters) /\ hostname = LastOf(Names \cap Past)
          /\ requested = (IF ciaddr THEN <<>> ELSE FirstOf(Addresses \cap Past))
          /\ ports = "client"
      BY <2>1, <2>9 DEF OptionsKept
    <3>2. fingerprint' = fingerprint /\ walk' = "name" /\ at' = After(at)
      BY <2>3, <2>9 DEF Takes
    <3>3. hostname' = LastOf(Names \cap Past')
      <4>1. CASE at \in Names
        <5>1. hostname' = <<Value(at)>>
          BY <2>3, <2>5, <2>9, <4>1 DEF Takes, Names
        <5>2. /\ at \in Names \cap Past' /\ Names \cap Past' \subseteq Nat
              /\ \A i \in Names \cap Past' : i <= at
          BY <1>2, <1>7, <2>4, <2>6, <3>2, <4>1
        <5> QED
          BY <5>1, <5>2, LastIs
      <4>2. CASE at \notin Names
        <5>1. hostname' = hostname
          BY <2>3, <2>5, <2>7, <2>9, <4>2 DEF Takes, Names
        <5>2. Names \cap Past' = Names \cap Past
          BY <2>4, <3>2, <4>2
        <5> QED
          BY <3>1, <5>1, <5>2
      <4> QED
        BY <4>1, <4>2
    <3>4. requested' = IF ciaddr THEN <<>> ELSE FirstOf(Addresses \cap Past')
      <4>1. CASE ciaddr
        BY <2>3, <3>1, <4>1 DEF Takes
      <4>2. CASE ~ciaddr /\ at \in Addresses
        <5>1. requested' = IF requested = <<>> THEN <<Value(at)>> ELSE requested
          BY <2>3, <2>5, <2>9, <4>2 DEF Takes, Addresses
        <5>2. Addresses \cap Past' = (Addresses \cap Past) \cup {at}
          BY <2>4, <3>2, <4>2
        <5>3. FirstOf((Addresses \cap Past) \cup {at})
                = IF FirstOf(Addresses \cap Past) = <<>> THEN <<Value(at)>>
                  ELSE FirstOf(Addresses \cap Past)
          <6>1. PICK I : I = Addresses \cap Past
            OBVIOUS
          <6>2. I \subseteq Nat /\ \A i \in I : i < at
            BY <1>7, <2>6, <6>1
          <6> QED
            BY <1>2, <6>1, <6>2, FirstStays
        <5> QED
          BY <3>1, <4>2, <5>1, <5>2, <5>3
      <4>3. CASE ~ciaddr /\ at \notin Addresses
        <5>1. requested' = requested
          BY <2>3, <2>5, <2>7, <2>9, <4>3 DEF Takes, Addresses
        <5>2. Addresses \cap Past' = Addresses \cap Past
          BY <2>4, <3>2, <4>3
        <5> QED
          BY <3>1, <4>3, <5>1, <5>2
      <4> QED
        BY <4>1, <4>2, <4>3
    <3> QED
      BY <1>1, <1>2, <1>3, <1>4, <2>1, <2>4, <2>5, <3>1, <3>2, <3>3, <3>4 DEF OptionsKept
  <2> QED
    BY <2>1, <2>8, <2>9
<1> QED
  BY <1>9, <1>10, <1>11, <1>12

\* The fingerprint, the name and the address a DHCP message gives are those its
\* options say by the grammar, in messages of every length, padded or cut off: the
\* walks lose their place in none (packet.rs:600-626 and 654-687, dhcp_probe.rs:184-213).
THEOREM OptionsAreReadHolds == PayloadSpec => []OptionsAreRead
<1>1. PayloadInit => OptionsKept
  BY OptionsInit
<1>2. ASSUME OptionsKept, [PayloadNext]_allVars PROVE OptionsKept'
  <2>1. CASE [Next]_vars /\ UNCHANGED dhcpVars
    <3>1. data' = data
      BY <2>1 DEF Next, vars, message, Start, GiveUp, ReadOutside, ReadRoot, ReadPointer, ReadLabel,
             SkipOutside, SkipRoot, SkipPointer, SkipLabel, Skipped, NextQuestion, NextAnswer,
             Finish, ReadRecord, Returned
    <3>2. Past' = Past /\ Request' = Request /\ Dhcp' = Dhcp /\ at' = at
      BY <2>1, <3>1, OptionsStay DEF Past, Request, Dhcp, dhcpVars
    <3>3. /\ OptionsAt' = OptionsAt /\ Parameters' = Parameters
          /\ Names' = Names /\ Addresses' = Addresses
      BY <3>1, OptionsStay
    <3> QED
      BY <1>2, <2>1, <3>1, <3>2, <3>3, OptionsSay DEF OptionsKept, dhcpVars
  <2>2. CASE Header \/ Pad \/ WalkEnds \/ Option
    BY <1>2, <2>2, OptionsStep
  <2> QED
    BY <1>2, <2>1, <2>2 DEF PayloadNext, allVars
<1>3. OptionsKept => OptionsAreRead
  BY DEF OptionsKept, OptionsAreRead, Request
<1> QED
  BY <1>1, <1>2, <1>3, PTL DEF PayloadSpec

-----------------------------------------------------------------------------
(***************************************************************************)
(* The grammar of DNS responses, unfolded.                                 *)
(***************************************************************************)
Places == Nat \X Nat
Lists  == Seq(Nat \X Nat)

Following(i) == i + 1 + Byte(i)

\* The measures: a label leads forward, a pointer uses up a jump; a question or
\* a record is one less.
Ahead == [p \in Places |-> p[2] * (Size + 1) + Left[p[1]]]
More  == [p \in Places |-> p[2]]

LEMMA DnsConstants ==
  /\ HeaderSize \in Nat \ {0} /\ QuestionSize \in Nat /\ RecordSize \in Nat
  /\ Pointer \in Nat \ {0} /\ TypeAt \in Nat /\ LengthAt \in Nat /\ MaxJumps \in Nat
  /\ TypeAt < RecordSize /\ LengthAt < RecordSize
BY DnsMessageAssumption

LEMMA LabelFollows ==
  ASSUME data \in Seq(Bytes)
  PROVE  \A i \in Nat : Following(i) \in Nat /\ i < Following(i)
<1> SUFFICES ASSUME NEW i \in Nat PROVE Following(i) \in Nat /\ i < Following(i)
  OBVIOUS
<1>1. Byte(i) \in Nat
  BY ByteType
<1> QED
  BY <1>1 DEF Following

LEMMA PointerLeads ==
  ASSUME data \in Seq(Bytes), NEW i \in Nat, Byte(i) >= Pointer
  PROVE  PointsTo(i) \in Nat
<1>1. Byte(i) \in Nat /\ Byte(i + 1) \in Nat /\ Pointer \in Nat
  <2>1. i + 1 \in Nat
    OBVIOUS
  <2> QED
    BY <2>1, ByteType, DnsConstants
<1> QED
  BY <1>1 DEF PointsTo

LEMMA AheadLess ==
  ASSUME data \in Seq(Bytes)
  PROVE  /\ Ahead \in [Places -> Nat]
         /\ \A i, j, n \in Nat : ~(i >= Size) /\ i < j => Ahead[<<j, n>>] < Ahead[<<i, n>>]
         /\ \A i, j, n \in Nat : ~(i >= Size) /\ n # 0 => Ahead[<<j, n - 1>>] < Ahead[<<i, n>>]
<1>1. PICK k \in Nat : k = Size + 1 /\ Size \in Nat
  BY ByteType
<1>2. ASSUME NEW i \in Nat, NEW n \in Nat
      PROVE  Ahead[<<i, n>>] = n * k + Left[i] /\ n * k \in Nat /\ Left[i] \in Nat
  <2>1. Left[i] \in Nat
    BY Leaves
  <2> QED
    BY <1>1, <2>1 DEF Ahead, Places
<1>3. Ahead \in [Places -> Nat]
  <2>1. \A p \in Places : Ahead[p] \in Nat
    <3> SUFFICES ASSUME NEW p \in Places PROVE Ahead[p] \in Nat
      OBVIOUS
    <3>1. PICK i \in Nat, n \in Nat : p = <<i, n>>
      BY DEF Places
    <3>2. PICK x \in Nat, y \in Nat : Ahead[<<i, n>>] = x + y
      BY <1>2
    <3> QED
      BY <3>1, <3>2
  <2> QED
    BY <2>1 DEF Ahead
<1>4. ASSUME NEW i \in Nat, NEW j \in Nat, NEW n \in Nat, ~(i >= Size), i < j
      PROVE  Ahead[<<j, n>>] < Ahead[<<i, n>>]
  <2>1. Left[j] < Left[i]
    BY <1>4, Leaves
  <2> QED
    BY <1>2, <2>1
<1>5. ASSUME NEW i \in Nat, NEW j \in Nat, NEW n \in Nat, ~(i >= Size), n # 0
      PROVE  Ahead[<<j, n - 1>>] < Ahead[<<i, n>>]
  <2>1. Left[j] < k /\ Left[i] > 0 /\ n - 1 \in Nat
    BY <1>1, <1>5 DEF Left
  <2>2. n * k = (n - 1) * k + k
    BY <1>1
  <2>3. /\ Ahead[<<j, n - 1>>] = (n - 1) * k + Left[j] /\ (n - 1) * k \in Nat /\ Left[j] \in Nat
        /\ Ahead[<<i, n>>] = n * k + Left[i] /\ Left[i] \in Nat
    BY <1>2, <2>1
  <2>4. PICK x \in Nat : x = (n - 1) * k
    BY <2>3
  <2>5. Ahead[<<j, n - 1>>] = x + Left[j] /\ Ahead[<<i, n>>] = x + k + Left[i]
    BY <2>2, <2>3, <2>4
  <2>6. PICK a \in Nat, b \in Nat : a = Left[j] /\ b = Left[i] /\ a < k /\ b > 0
    BY <2>1, <2>3
  <2>7. x + a < x + k + b
    BY <1>1, <2>4, <2>6
  <2> QED
    BY <2>5, <2>6, <2>7
<1> QED
  BY <1>3, <1>4, <1>5

LEMMA NameEndIs ==
  ASSUME data \in Seq(Bytes)
  PROVE  \A i \in Nat : NameEnd[i] =
           IF i >= Size THEN {}
           ELSE IF Byte(i) = 0 THEN {i + 1}
           ELSE IF Byte(i) >= Pointer THEN {i + 2}
           ELSE NameEnd[Following(i)]
<1> DEFINE V == SUBSET Nat
           Body(f, i) == IF i >= Size THEN {}
                         ELSE CASE Byte(i) = 0        -> {i + 1}
                                [] Byte(i) >= Pointer -> {i + 2}
                                [] OTHER              -> f[Following(i)]
           G == [f \in [Nat -> V] |-> [i \in Nat |-> Body(f, i)]]
<1>1. ASSUME NEW f, NEW i \in Nat
      PROVE  Body(f, i) = IF i >= Size THEN {}
                          ELSE IF Byte(i) = 0 THEN {i + 1}
                          ELSE IF Byte(i) >= Pointer THEN {i + 2}
                          ELSE f[Following(i)]
  <2>1. ~(Byte(i) = 0 /\ Byte(i) >= Pointer)
    BY ByteType, DnsConstants
  <2> QED
    BY <2>1
<1> HIDE DEF Body
<1>2. ASSUME NEW f \in [Nat -> V], NEW i \in Nat PROVE Body(f, i) \in V
  <2>1. Following(i) \in Nat
    BY LabelFollows
  <2>2. f[Following(i)] \subseteq Nat
    BY <2>1
  <2> QED
    BY <1>1, <2>2
<1>3. G \in [[Nat -> V] -> [Nat -> V]]
  <2> HIDE DEF V
  <2> QED
    BY <1>2
<1>4. ASSUME NEW f \in [Nat -> V], NEW g \in [Nat -> V], NEW i \in Nat,
             \A e \in Nat : Left[e] < Left[i] => f[e] = g[e]
      PROVE  G[f][i] = G[g][i]
  <2>1. ~(i >= Size) => f[Following(i)] = g[Following(i)]
    BY <1>4, Leaves, LabelFollows
  <2>2. Body(f, i) = Body(g, i)
    BY <1>1, <2>1
  <2> HIDE DEF V
  <2> QED
    BY <2>2
<1>5. Descends(G, Nat, V, Left)
  <2> HIDE DEF G, V
  <2> QED
    BY <1>3, <1>4, Leaves DEF Descends
<1>6. \E f : f = [i \in Nat |-> Body(f, i)]
  <2>1. PICK f \in [Nat -> V] : f = G[f]
    <3> HIDE DEF G, V
    <3>1. V # {}
      BY DEF V
    <3> QED
      BY <1>5, <3>1, Recursion
  <2>2. f = [i \in Nat |-> Body(f, i)]
    <3> HIDE DEF V
    <3> QED
      BY <2>1
  <2> QED
    BY <2>2
<1>7. NameEnd = [i \in Nat |-> Body(NameEnd, i)]
  BY <1>6 DEF NameEnd, Following, Body
<1>8. \A i \in Nat : NameEnd[i] = Body(NameEnd, i)
  <2> HIDE DEF G, V
  <2> QED
    BY <1>7
<1> QED
  BY <1>1, <1>8

LEMMA NameEndType ==
  ASSUME data \in Seq(Bytes)
  PROVE  \A i \in Nat : NameEnd[i] \subseteq Nat
<1> DEFINE P == {i \in Nat : NameEnd[i] \subseteq Nat}
<1>1. ASSUME NEW i \in Nat, \A e \in Nat : Left[e] < Left[i] => e \in P
      PROVE  i \in P
  <2>1. CASE i >= Size \/ Byte(i) = 0 \/ Byte(i) >= Pointer
    <3>1. i + 1 \in Nat /\ i + 2 \in Nat
      OBVIOUS
    <3>2. NameEnd[i] = {} \/ NameEnd[i] = {i + 1} \/ NameEnd[i] = {i + 2}
      BY <2>1, NameEndIs
    <3> QED
      BY <3>1, <3>2
  <2>2. CASE ~(i >= Size) /\ Byte(i) # 0 /\ ~(Byte(i) >= Pointer)
    <3>1. PICK j \in Nat : j = Following(i) /\ i < j
      BY LabelFollows
    <3>2. Left[j] < Left[i]
      BY <2>2, <3>1, Leaves
    <3>3. NameEnd[i] = NameEnd[j]
      BY <2>2, <3>1, NameEndIs
    <3> QED
      BY <1>1, <3>2, <3>3
  <2> QED
    BY <2>1, <2>2
<1>2. Nat \subseteq P
  <2> HIDE DEF P
  <2> QED
    BY <1>1, Leaves, ByMeasure
<1> QED
  BY <1>2

\* The cases of the definition of NameLabels.
Jumps(i, n) == ~(n = 0 \/ i + 1 >= Size)
Readable(i) == ~(i + 1 + Byte(i) > Size \/ ~IsText(i + 1, Byte(i)))

\* The sequences that begin with s and go on with one of S.
Join(s, S) == {s \o rest : rest \in S}

LEMMA JoinType ==
  ASSUME NEW s \in Lists, NEW S \in SUBSET Lists
  PROVE  Join(s, S) \in SUBSET Lists
<1>1. \A rest \in S : s \o rest \in Lists
  BY ConcatProperties DEF Lists
<1> QED
  BY <1>1 DEF Join

LEMMA JoinEmpty ==
  ASSUME NEW S \in SUBSET Lists
  PROVE  Join(<<>>, S) = S
<1>1. \A rest \in S : <<>> \o rest = rest
  BY ConcatEmptySeq DEF Lists
<1> QED
  BY <1>1 DEF Join

LEMMA JoinJoin ==
  ASSUME NEW s \in Lists, NEW t \in Lists, NEW S \in SUBSET Lists
  PROVE  Join(s, Join(t, S)) = Join(s \o t, S)
<1>1. ASSUME NEW rest \in S PROVE s \o (t \o rest) = (s \o t) \o rest
  <2>1. PICK T : Lists = Seq(T)
    BY DEF Lists
  <2>2. s \in Seq(T) /\ t \in Seq(T) /\ rest \in Seq(T)
    BY <2>1
  <2>3. \A a, b, c \in Seq(T) : a \o (b \o c) = (a \o b) \o c
    BY ConcatAssociative, SMTT(30)
  <2> QED
    BY <2>2, <2>3
<1>2. \A y \in Join(t, S) : s \o y \in Join(s \o t, S)
  BY <1>1 DEF Join
<1>3. \A rest \in S : (s \o t) \o rest \in Join(s, Join(t, S))
  BY <1>1 DEF Join
<1> QED
  BY <1>2, <1>3 DEF Join

LEMMA LabelsAre ==
  ASSUME data \in Seq(Bytes)
  PROVE  /\ \A p \in Places : NameLabels[p] \in SUBSET Lists
         /\ \A i, n \in Nat : NameLabels[<<i, n>>] =
              IF i >= Size THEN {}
              ELSE IF Byte(i) = 0 THEN {<<>>}
              ELSE IF Byte(i) >= Pointer
                THEN IF Jumps(i, n) THEN NameLabels[<<PointsTo(i), n - 1>>] ELSE {}
              ELSE IF Readable(i)
                THEN Join(<<<<i + 1, Byte(i)>>>>, NameLabels[<<Following(i), n>>])
                ELSE {}
<1> DEFINE V == SUBSET Lists
           Body(f, p) ==
             LET i == p[1]
                 n == p[2]
             IN IF i >= Size THEN {}
                ELSE CASE Byte(i) = 0 -> {<<>>}
                       [] Byte(i) >= Pointer ->
                            IF n = 0 \/ i + 1 >= Size THEN {}
                            ELSE f[<<PointsTo(i), n - 1>>]
                       [] OTHER ->
                            IF i + 1 + Byte(i) > Size \/ ~IsText(i + 1, Byte(i)) THEN {}
                            ELSE {<<<<i + 1, Byte(i)>>>> \o rest :
                                    rest \in f[<<i + 1 + Byte(i), n>>]}
           G == [f \in [Places -> V] |-> [p \in Places |-> Body(f, p)]]
<1>1. ASSUME NEW f, NEW i \in Nat, NEW n \in Nat
      PROVE  Body(f, <<i, n>>) =
              IF i >= Size THEN {}
              ELSE IF Byte(i) = 0 THEN {<<>>}
              ELSE IF Byte(i) >= Pointer
                THEN IF Jumps(i, n) THEN f[<<PointsTo(i), n - 1>>] ELSE {}
              ELSE IF Readable(i)
                THEN Join(<<<<i + 1, Byte(i)>>>>, f[<<Following(i), n>>])
                ELSE {}
  <2>1. ~(Byte(i) = 0 /\ Byte(i) >= Pointer)
    BY ByteType, DnsConstants
  <2> QED
    BY <2>1 DEF Jumps, Readable, Following, Join
<1> HIDE DEF Body
<1>2. \A p \in Places : \E i \in Nat, n \in Nat : p = <<i, n>>
  BY DEF Places
<1>3. ASSUME NEW i \in Nat, NEW n \in Nat, ~(i >= Size)
      PROVE  /\ <<i, n>> \in Places
             /\ Byte(i) >= Pointer /\ Jumps(i, n) =>
                  /\ <<PointsTo(i), n - 1>> \in Places
                  /\ Ahead[<<PointsTo(i), n - 1>>] < Ahead[<<i, n>>]
             /\ <<Following(i), n>> \in Places
             /\ Ahead[<<Following(i), n>>] < Ahead[<<i, n>>]
             /\ <<i + 1, Byte(i)>> \in Nat \X Nat
  <2>1. Following(i) \in Nat /\ i < Following(i) /\ Byte(i) \in Nat
    BY LabelFollows, ByteType
  <2>2. ASSUME Byte(i) >= Pointer, Jumps(i, n)
        PROVE  PointsTo(i) \in Nat /\ n - 1 \in Nat /\ n # 0
    BY <2>2, PointerLeads DEF Jumps
  <2>3. Ahead[<<Following(i), n>>] < Ahead[<<i, n>>]
    BY <1>3, <2>1, AheadLess
  <2>4. ASSUME Byte(i) >= Pointer, Jumps(i, n)
        PROVE  Ahead[<<PointsTo(i), n - 1>>] < Ahead[<<i, n>>]
    BY <1>3, <2>2, <2>4, AheadLess
  <2> QED
    BY <2>1, <2>2, <2>3, <2>4 DEF Places
<1>4. ASSUME NEW f, NEW p \in Places,
             \A e \in Places : Ahead[e] < Ahead[p] => f[e] \in V
      PROVE  Body(f, p) \in V
  <2>1. PICK i \in Nat, n \in Nat : p = <<i, n>>
    BY <1>2
  <2>2. CASE i >= Size \/ Byte(i) = 0
    <3>1. Body(f, p) = {} \/ Body(f, p) = {<<>>}
      BY <1>1, <2>1, <2>2
    <3>2. {} \in SUBSET Lists /\ {<<>>} \in SUBSET Lists
      BY EmptySeq DEF Lists
    <3> QED
      BY <3>1, <3>2
  <2>3. CASE ~(i >= Size) /\ Byte(i) # 0 /\ Byte(i) >= Pointer
    BY <1>1, <1>3, <1>4, <2>1, <2>3
  <2>4. CASE ~(i >= Size) /\ Byte(i) # 0 /\ ~(Byte(i) >= Pointer)
    <3>1. f[<<Following(i), n>>] \in SUBSET Lists /\ <<<<i + 1, Byte(i)>>>> \in Lists
      <4>1. f[<<Following(i), n>>] \in V
        BY <1>3, <1>4, <2>1, <2>4
      <4>2. <<i + 1, Byte(i)>> \in Nat \X Nat
        BY <1>3, <2>4
      <4>3. \A x \in Nat \X Nat : <<x>> \in Seq(Nat \X Nat)
        OBVIOUS
      <4> QED
        BY <4>1, <4>2, <4>3 DEF Lists
    <3>2. Join(<<<<i + 1, Byte(i)>>>>, f[<<Following(i), n>>]) \in SUBSET Lists
      BY <3>1, JoinType
    <3> QED
      BY <1>1, <2>1, <2>4, <3>2
  <2> QED
    BY <2>2, <2>3, <2>4
<1>5. G \in [[Places -> V] -> [Places -> V]]
  <2> HIDE DEF V
  <2>1. \A f \in [Places -> V], p \in Places : Body(f, p) \in V
    BY <1>4
  <2> QED
    BY <2>1
<1>6. ASSUME NEW f \in [Places -> V], NEW g \in [Places -> V], NEW p \in Places,
             \A e \in Places : Ahead[e] < Ahead[p] => f[e] = g[e]
      PROVE  G[f][p] = G[g][p]
  <2>1. PICK i \in Nat, n \in Nat : p = <<i, n>>
    BY <1>2
  <2>2. CASE i >= Size
    BY <1>1, <2>1, <2>2
  <2>3. CASE ~(i >= Size)
    <3>1. f[<<Following(i), n>>] = g[<<Following(i), n>>]
      BY <1>3, <1>6, <2>1, <2>3
    <3>2. Byte(i) >= Pointer /\ Jumps(i, n) =>
            f[<<PointsTo(i), n - 1>>] = g[<<PointsTo(i), n - 1>>]
      <4> SUFFICES ASSUME Byte(i) >= Pointer, Jumps(i, n)
                   PROVE  f[<<PointsTo(i), n - 1>>] = g[<<PointsTo(i), n - 1>>]
        OBVIOUS
      <4>1. /\ <<PointsTo(i), n - 1>> \in Places
            /\ Ahead[<<PointsTo(i), n - 1>>] < Ahead[p]
        BY <1>3, <2>1, <2>3
      <4> QED
        BY <1>6, <4>1
    <3>3. Body(f, p) = Body(g, p)
      BY <1>1, <2>1, <3>1, <3>2, ZenonT(30)
    <3> HIDE DEF V
    <3> QED
      BY <3>3
  <2> QED
    BY <2>2, <2>3
<1>7. Descends(G, Places, V, Ahead)
  <2> HIDE DEF G, V
  <2> QED
    BY <1>5, <1>6, AheadLess DEF Descends
<1>8. \E f : f = [p \in Places |-> Body(f, p)]
  <2>1. PICK f \in [Places -> V] : f = G[f]
    <3> HIDE DEF G, V
    <3>1. V # {}
      BY DEF V
    <3> QED
      BY <1>7, <3>1, Recursion
  <2>2. f = [p \in Places |-> Body(f, p)]
    <3> HIDE DEF V
    <3> QED
      BY <2>1
  <2> QED
    BY <2>2
<1>9. NameLabels = [p \in Places |-> Body(NameLabels, p)]
  BY <1>8 DEF NameLabels, Places, Body
<1>10. \A p \in Places : NameLabels[p] = Body(NameLabels, p)
  <2> HIDE DEF G, V
  <2> QED
    BY <1>9
<1> DEFINE P == {p \in Places : NameLabels[p] \in V}
<1>11. ASSUME NEW p \in Places, \A e \in Places : Ahead[e] < Ahead[p] => e \in P
       PROVE  p \in P
  <2> HIDE DEF V
  <2> QED
    BY <1>4, <1>10, <1>11
<1>12. Places \subseteq P
  <2> HIDE DEF P
  <2> QED
    BY <1>11, AheadLess, ByMeasure
<1>13. \A p \in Places : NameLabels[p] \in SUBSET Lists
  BY <1>12
<1>14. \A i, n \in Nat : NameLabels[<<i, n>>] = Body(NameLabels, <<i, n>>)
  BY <1>10 DEF Places
<1> SUFFICES ASSUME NEW i \in Nat, NEW n \in Nat
             PROVE  NameLabels[<<i, n>>] =
              IF i >= Size THEN {}
              ELSE IF Byte(i) = 0 THEN {<<>>}
              ELSE IF Byte(i) >= Pointer
                THEN IF Jumps(i, n) THEN NameLabels[<<PointsTo(i), n - 1>>] ELSE {}
              ELSE IF Readable(i)
                THEN Join(<<<<i + 1, Byte(i)>>>>, NameLabels[<<Following(i), n>>])
                ELSE {}
  BY <1>13
<1>15. PICK f : f = NameLabels
  OBVIOUS
<1>16. f[<<i, n>>] = Body(f, <<i, n>>)
  BY <1>14, <1>15
<1> HIDE DEF G, V, P
<1> QED
  BY <1>1, <1>15, <1>16

LEMMA MoreIs ==
  /\ More \in [Places -> Nat]
  /\ \A i, j, n \in Nat : n # 0 => /\ <<j, n - 1>> \in Places
                                   /\ More[<<j, n - 1>>] < More[<<i, n>>]
  /\ \A p \in Places : \E i \in Nat, n \in Nat : p = <<i, n>>
<1>1. \A p \in Places : \E i \in Nat, n \in Nat : p = <<i, n>>
  BY DEF Places
<1>2. \A i \in Nat, n \in Nat : <<i, n>> \in Places /\ More[<<i, n>>] = n
  BY DEF Places, More
<1>3. More \in [Places -> Nat]
  BY <1>1, <1>2 DEF More
<1>4. ASSUME NEW i \in Nat, NEW j \in Nat, NEW n \in Nat, n # 0
      PROVE  <<j, n - 1>> \in Places /\ More[<<j, n - 1>>] < More[<<i, n>>]
  <2>1. n - 1 \in Nat /\ n - 1 < n
    BY <1>4
  <2>2. More[<<j, n - 1>>] = n - 1 /\ <<j, n - 1>> \in Places /\ More[<<i, n>>] = n
    BY <1>2, <2>1
  <2> QED
    BY <2>1, <2>2
<1> QED
  BY <1>1, <1>3, <1>4


\* The questions that n more lead to from the ends E of a name.
QuestionsFrom(E, n) == UNION {QuestionsEnd[<<e + QuestionSize, n>>] : e \in E}

LEMMA QuestionsAre ==
  ASSUME data \in Seq(Bytes)
  PROVE  \A i, n \in Nat : QuestionsEnd[<<i, n>>] =
           IF n = 0 THEN {i} ELSE QuestionsFrom(NameEnd[i], n - 1)
<1> DEFINE V == SUBSET Nat
           Body(f, p) ==
             LET i == p[1]
                 n == p[2]
             IN IF n = 0 THEN {i}
                ELSE UNION {f[<<e + QuestionSize, n - 1>>] : e \in NameEnd[i]}
           G == [f \in [Places -> V] |-> [p \in Places |-> Body(f, p)]]
           All(f, i, n) == UNION {f[<<e + QuestionSize, n - 1>>] : e \in NameEnd[i]}
<1>1. /\ \A f : \A i \in Nat : Body(f, <<i, 0>>) = {i}
      /\ \A f : \A i, n \in Nat : n # 0 => Body(f, <<i, n>>) = All(f, i, n)
  OBVIOUS
<1> HIDE DEF Body, All
<1>2. ASSUME NEW i \in Nat, NEW n \in Nat, n # 0, NEW e \in NameEnd[i]
      PROVE  /\ <<e + QuestionSize, n - 1>> \in Places
             /\ More[<<e + QuestionSize, n - 1>>] < More[<<i, n>>]
  <2>1. PICK j \in Nat : j = e + QuestionSize
    BY NameEndType, DnsConstants
  <2> QED
    BY <1>2, <2>1, MoreIs
<1>3. ASSUME NEW f \in [Places -> V], NEW p \in Places PROVE Body(f, p) \in V
  <2>1. PICK i \in Nat, n \in Nat : p = <<i, n>>
    BY MoreIs
  <2>2. n # 0 => \A e \in NameEnd[i] : f[<<e + QuestionSize, n - 1>>] \subseteq Nat
    BY <1>2
  <2>3. CASE n = 0
    <3>1. Body(f, p) = {i}
      BY <1>1, <2>1, <2>3
    <3> QED
      BY <3>1
  <2>4. CASE n # 0
    <3>1. All(f, i, n) \subseteq Nat
      BY <2>2, <2>4 DEF All
    <3>2. Body(f, p) = All(f, i, n)
      BY <1>1, <2>1, <2>4
    <3> QED
      BY <3>1, <3>2
  <2> QED
    BY <2>3, <2>4
<1>4. G \in [[Places -> V] -> [Places -> V]]
  <2> HIDE DEF V
  <2> QED
    BY <1>3
<1>5. ASSUME NEW f \in [Places -> V], NEW g \in [Places -> V], NEW p \in Places,
             \A e \in Places : More[e] < More[p] => f[e] = g[e]
      PROVE  G[f][p] = G[g][p]
  <2>1. PICK i \in Nat, n \in Nat : p = <<i, n>>
    BY MoreIs
  <2>2. n # 0 => \A e \in NameEnd[i] :
                   f[<<e + QuestionSize, n - 1>>] = g[<<e + QuestionSize, n - 1>>]
    BY <1>2, <1>5, <2>1
  <2>3. Body(f, p) = Body(g, p)
    <3>1. CASE n = 0
      BY <1>1, <2>1, <3>1
    <3>2. CASE n # 0
      <4>1. All(f, i, n) = All(g, i, n)
        BY <2>2, <3>2 DEF All
      <4>2. Body(f, p) = All(f, i, n) /\ Body(g, p) = All(g, i, n)
        BY <1>1, <2>1, <3>2
      <4> QED
        BY <4>1, <4>2
    <3> QED
      BY <3>1, <3>2
  <2> HIDE DEF V
  <2> QED
    BY <2>3
<1>6. Descends(G, Places, V, More)
  <2> HIDE DEF G, V
  <2> QED
    BY <1>4, <1>5, MoreIs DEF Descends
<1>7. \E f : f = [p \in Places |-> Body(f, p)]
  <2>1. PICK f \in [Places -> V] : f = G[f]
    <3> HIDE DEF G, V
    <3>1. V # {}
      BY DEF V
    <3> QED
      BY <1>6, <3>1, Recursion
  <2>2. f = [p \in Places |-> Body(f, p)]
    <3> HIDE DEF V
    <3> QED
      BY <2>1
  <2> QED
    BY <2>2
<1>8. QuestionsEnd = [p \in Places |-> Body(QuestionsEnd, p)]
  BY <1>7 DEF QuestionsEnd, Places, Body
<1>9. \A i, n \in Nat : QuestionsEnd[<<i, n>>] = Body(QuestionsEnd, <<i, n>>)
  <2> HIDE DEF G, V
  <2>1. \A i, n \in Nat : <<i, n>> \in Places
    BY DEF Places
  <2> QED
    BY <1>8, <2>1
<1>10. \A i, n \in Nat : All(QuestionsEnd, i, n) = QuestionsFrom(NameEnd[i], n - 1)
  BY DEF All, QuestionsFrom
<1> HIDE DEF G, V
<1>11. ASSUME NEW i \in Nat PROVE QuestionsEnd[<<i, 0>>] = {i}
  BY <1>1, <1>9
<1>12. ASSUME NEW i \in Nat, NEW n \in Nat, n # 0
       PROVE  QuestionsEnd[<<i, n>>] = QuestionsFrom(NameEnd[i], n - 1)
  BY <1>1, <1>9, <1>10, <1>12
<1> QED
  BY <1>11, <1>12

\* The addresses that n more records lead to after those with a name that ends in E.
RecordsFrom(E, n) ==
  UNION {Join(RecordAddress(e), RecordsAt[<<RecordEnd(e), n>>])
           : e \in {e \in E : RecordEnd(e) <= Size}}

LEMMA RecordIs ==
  ASSUME data \in Seq(Bytes), NEW e \in Nat
  PROVE  RecordEnd(e) \in Nat /\ RecordData(e) \in Nat /\ RecordAddress(e) \in Lists
<1>1. PICK j \in Nat : j = e + LengthAt
  BY DnsConstants
<1>2. Byte(j) \in Nat
  BY ByteType
<1>3. RecordData(e) \in Nat /\ RecordEnd(e) \in Nat
  BY <1>1, <1>2, DnsConstants DEF RecordData, RecordEnd
<1>4. <<>> \in Lists /\ \A x \in Nat \X Nat : <<x>> \in Lists
  BY EmptySeq DEF Lists
<1>5. <<RecordData(e), Byte(e + LengthAt)>> \in Nat \X Nat
  BY <1>1, <1>2, <1>3
<1> QED
  BY <1>3, <1>4, <1>5 DEF RecordAddress

LEMMA RecordsAre ==
  ASSUME data \in Seq(Bytes)
  PROVE  /\ \A p \in Places : RecordsAt[p] \in SUBSET Lists
         /\ \A i, n \in Nat : RecordsAt[<<i, n>>] =
              IF n = 0 THEN {<<>>} ELSE RecordsFrom(NameEnd[i], n - 1)
<1> DEFINE V == SUBSET Lists
           Body(f, p) ==
             LET i == p[1]
                 n == p[2]
             IN IF n = 0 THEN {<<>>}
                ELSE UNION {{RecordAddress(e) \o rest : rest \in f[<<RecordEnd(e), n - 1>>]}
                              : e \in {e \in NameEnd[i] : RecordEnd(e) <= Size}}
           G == [f \in [Places -> V] |-> [p \in Places |-> Body(f, p)]]
           All(f, i, n) == UNION {Join(RecordAddress(e), f[<<RecordEnd(e), n - 1>>])
                                    : e \in {e \in NameEnd[i] : RecordEnd(e) <= Size}}
<1>1. \A f : \A i, n \in Nat : Body(f, <<i, n>>) = IF n = 0 THEN {<<>>} ELSE All(f, i, n)
  BY DEF Join
<1> HIDE DEF Body, All
<1>2. ASSUME NEW i \in Nat, NEW n \in Nat, n # 0, NEW e \in NameEnd[i]
      PROVE  /\ <<RecordEnd(e), n - 1>> \in Places
             /\ More[<<RecordEnd(e), n - 1>>] < More[<<i, n>>]
             /\ RecordAddress(e) \in Lists
  <2>1. e \in Nat
    BY NameEndType
  <2>2. RecordEnd(e) \in Nat /\ RecordAddress(e) \in Lists
    BY <2>1, RecordIs
  <2> QED
    BY <1>2, <2>2, MoreIs
<1>3. ASSUME NEW f, NEW p \in Places, \A q \in Places : More[q] < More[p] => f[q] \in V
      PROVE  Body(f, p) \in V
  <2>1. PICK i \in Nat, n \in Nat : p = <<i, n>>
    BY MoreIs
  <2>2. n # 0 => \A e \in NameEnd[i] :
                   Join(RecordAddress(e), f[<<RecordEnd(e), n - 1>>]) \in SUBSET Lists
    BY <1>2, <1>3, <2>1, JoinType
  <2>3. CASE n = 0
    <3>1. Body(f, p) = {<<>>}
      BY <1>1, <2>1, <2>3
    <3> QED
      BY <3>1, EmptySeq DEF Lists
  <2>4. CASE n # 0
    <3>1. All(f, i, n) \subseteq Lists
      BY <2>2, <2>4 DEF All
    <3> QED
      BY <1>1, <2>1, <2>4, <3>1
  <2> QED
    BY <2>3, <2>4
<1>4. G \in [[Places -> V] -> [Places -> V]]
  <2> HIDE DEF V
  <2>1. \A f \in [Places -> V], p \in Places : Body(f, p) \in V
    BY <1>3
  <2> QED
    BY <2>1
<1>5. ASSUME NEW f \in [Places -> V], NEW g \in [Places -> V], NEW p \in Places,
             \A e \in Places : More[e] < More[p] => f[e] = g[e]
      PROVE  G[f][p] = G[g][p]
  <2>1. PICK i \in Nat, n \in Nat : p = <<i, n>>
    BY MoreIs
  <2>2. n # 0 => \A e \in NameEnd[i] :
                   f[<<RecordEnd(e), n - 1>>] = g[<<RecordEnd(e), n - 1>>]
    BY <1>2, <1>5, <2>1
  <2>3. Body(f, p) = Body(g, p)
    <3>1. CASE n = 0
      BY <1>1, <2>1, <3>1
    <3>2. CASE n # 0
      <4>1. All(f, i, n) = All(g, i, n)
        BY <2>2, <3>2 DEF All
      <4> QED
        BY <1>1, <2>1, <3>2, <4>1
    <3> QED
      BY <3>1, <3>2
  <2> HIDE DEF V
  <2> QED
    BY <2>3
<1>6. Descends(G, Places, V, More)
  <2> HIDE DEF G, V
  <2> QED
    BY <1>4, <1>5, MoreIs DEF Descends
<1>7. \E f : f = [p \in Places |-> Body(f, p)]
  <2>1. PICK f \in [Places -> V] : f = G[f]
    <3> HIDE DEF G, V
    <3>1. V # {}
      BY DEF V
    <3> QED
      BY <1>6, <3>1, Recursion
  <2>2. f = [p \in Places |-> Body(f, p)]
    <3> HIDE DEF V
    <3> QED
      BY <2>1
  <2> QED
    BY <2>2
<1>8. RecordsAt = [p \in Places |-> Body(RecordsAt, p)]
  BY <1>7 DEF RecordsAt, Places, Body
<1>9. \A p \in Places : RecordsAt[p] = Body(RecordsAt, p)
  <2> HIDE DEF G, V
  <2> QED
    BY <1>8
<1> DEFINE P == {p \in Places : RecordsAt[p] \in V}
<1>10. ASSUME NEW p \in Places, \A e \in Places : More[e] < More[p] => e \in P
       PROVE  p \in P
  <2> HIDE DEF V
  <2> QED
    BY <1>3, <1>9, <1>10
<1>11. Places \subseteq P
  <2> HIDE DEF P
  <2> QED
    BY <1>10, MoreIs, ByMeasure
<1>12. \A p \in Places : RecordsAt[p] \in SUBSET Lists
  BY <1>11
<1>13. \A i, n \in Nat : RecordsAt[<<i, n>>] = Body(RecordsAt, <<i, n>>)
  BY <1>9 DEF Places
<1>14. \A i, n \in Nat : All(RecordsAt, i, n) = RecordsFrom(NameEnd[i], n - 1)
  BY DEF All, RecordsFrom
<1> HIDE DEF G, V, P
<1> QED
  BY <1>1, <1>12, <1>13, <1>14

-----------------------------------------------------------------------------
(***************************************************************************)
(* The parser of DNS responses.  Wherever it is, what the message says is  *)
(* what was read followed by what the grammar says of the rest.            *)
(***************************************************************************)
AllLabels == NameLabels[<<HeaderSize, MaxJumps>>]
AllEnds   == QuestionsEnd[<<HeaderSize, qdcount>>]
AllFound  == UNION {RecordsAt[<<i, ancount>>] : i \in AllEnds}

DnsTypes ==
  /\ data \in Seq(Bytes) /\ qdcount \in Nat /\ ancount \in Nat
  /\ offset \in Nat /\ pos \in Nat /\ jumped \in BOOLEAN
  /\ jump_count \in Nat /\ jump_count <= MaxJumps
  /\ questions \in Nat /\ answers \in Nat /\ labels \in Lists /\ ips \in Lists

\* In the first name.
InName ==
  /\ AllLabels = Join(labels, NameLabels[<<pos, MaxJumps - jump_count>>])
  /\ NameEnd[HeaderSize] = IF jumped THEN {offset} ELSE NameEnd[pos]
  /\ qdcount # 0 /\ questions = qdcount - 1 /\ answers = ancount /\ ips = <<>>

\* Behind it, among the questions; among the answers.
Named     == AllLabels = {labels} /\ labels # <<>>
Unread    == Named /\ answers = ancount /\ ips = <<>>

\* The inductive invariant.
DnsKept ==
  /\ DnsTypes
  /\ pc \in {"start", "read", "question", "skip_question", "answer", "skip_answer",
             "record", "done"}
  /\ pc = "start" => labels = <<>> /\ ips = <<>> /\ jump_count = 0 /\ ~jumped
  /\ pc = "read" => InName
  /\ pc = "question" => Unread /\ AllEnds = QuestionsEnd[<<offset, questions>>]
  /\ pc = "skip_question" => Unread /\ AllEnds = QuestionsFrom(NameEnd[offset], questions)
  /\ pc = "answer" => Named /\ AllFound = Join(ips, RecordsAt[<<offset, answers>>])
  /\ pc = "skip_answer" =>
       Named /\ AllFound = Join(ips, RecordsFrom(NameEnd[offset], answers))
  /\ pc = "record" => Named /\ AllFound = Join(ips, RecordsFrom({offset}, answers))
  /\ SaysWhatItSays

\* The message stays, and with it what the grammar says.
LEMMA DnsStays ==
  ASSUME UNCHANGED message
  PROVE  /\ NameEnd' = NameEnd /\ NameLabels' = NameLabels
         /\ QuestionsEnd' = QuestionsEnd /\ RecordsAt' = RecordsAt
         /\ AllLabels' = AllLabels /\ AllEnds' = AllEnds /\ AllFound' = AllFound
         /\ Said' = Said /\ Size' = Size
         /\ QuestionsFrom(NameEnd[offset], questions)'
              = QuestionsFrom(NameEnd[offset'], questions')
         /\ RecordsFrom(NameEnd[offset], answers)' = RecordsFrom(NameEnd[offset'], answers')
         /\ RecordsFrom({offset}, answers)' = RecordsFrom({offset'}, answers')
<1>1. data' = data /\ qdcount' = qdcount /\ ancount' = ancount
  BY DEF message
<1>2. NameEnd' = NameEnd
  BY <1>1 DEF NameEnd, Byte, Size
<1>3. NameLabels' = NameLabels
  BY <1>1 DEF NameLabels, PointsTo, IsText, Byte, Size
<1>4. QuestionsEnd' = QuestionsEnd
  BY <1>2 DEF QuestionsEnd
<1>5. RecordsAt' = RecordsAt
  BY <1>1, <1>2 DEF RecordsAt, RecordAddress, RecordEnd, RecordData, Byte, Size
<1>6. AllLabels' = AllLabels /\ AllEnds' = AllEnds
  BY <1>1, <1>3, <1>4 DEF AllLabels, AllEnds
<1>7. AllFound' = AllFound
  BY <1>1, <1>5, <1>6 DEF AllFound
<1>8. Said' = Said
  BY <1>1, <1>3, <1>4, <1>5 DEF Said
<1>9. Size' = Size
  BY <1>1 DEF Size
<1>10. QuestionsFrom(NameEnd[offset], questions)' = QuestionsFrom(NameEnd[offset'], questions')
  BY <1>2, <1>4 DEF QuestionsFrom
<1>11. /\ RecordsFrom(NameEnd[offset], answers)' = RecordsFrom(NameEnd[offset'], answers')
       /\ RecordsFrom({offset}, answers)' = RecordsFrom({offset'}, answers')
  BY <1>1, <1>2, <1>5 DEF RecordsFrom, RecordAddress, RecordEnd, RecordData, Byte, Size
<1> QED
  BY <1>2, <1>3, <1>4, <1>5, <1>6, <1>7, <1>8, <1>9, <1>10, <1>11

\* What the message says, if its name or its records are known.
LEMMA SaidIs ==
  /\ AllLabels \subseteq {<<>>} => Said = {}
  /\ AllFound = {} => Said = {}
  /\ \A n, a : AllLabels = {n} /\ AllFound = {a} => Said \subseteq {[qname |-> n, ips |-> a]}
<1>1. ASSUME NEW s \in Said
      PROVE  \E n \in AllLabels \ {<<>>}, a \in AllFound : s = [qname |-> n, ips |-> a]
  <2> DEFINE L == AllLabels \ {<<>>}
  <2>1. Said = {[qname |-> n, ips |-> a] : n \in L, a \in AllFound}
    BY DEF Said, AllLabels, AllFound, AllEnds
  <2> HIDE DEF L
  <2>2. \E n \in L, a \in AllFound : s = [qname |-> n, ips |-> a]
    BY <1>1, <2>1
  <2> QED
    BY <2>2 DEF L
<1> QED
  BY <1>1

\* No question behind no name; one behind one.
LEMMA FromOne ==
  ASSUME NEW n
  PROVE  /\ QuestionsFrom({}, n) = {} /\ RecordsFrom({}, n) = {}
         /\ \A e : QuestionsFrom({e}, n) = QuestionsEnd[<<e + QuestionSize, n>>]
         /\ \A e : RecordsFrom({e}, n) =
              IF RecordEnd(e) <= Size
                THEN Join(RecordAddress(e), RecordsAt[<<RecordEnd(e), n>>]) ELSE {}
<1>1. QuestionsFrom({}, n) = {} /\ RecordsFrom({}, n) = {}
  BY DEF QuestionsFrom, RecordsFrom
<1>2. ASSUME NEW e PROVE QuestionsFrom({e}, n) = QuestionsEnd[<<e + QuestionSize, n>>]
  BY DEF QuestionsFrom
<1>3. ASSUME NEW e
      PROVE  RecordsFrom({e}, n) =
               IF RecordEnd(e) <= Size
                 THEN Join(RecordAddress(e), RecordsAt[<<RecordEnd(e), n>>]) ELSE {}
  BY DEF RecordsFrom
<1> QED
  BY <1>1, <1>2, <1>3

LEMMA JoinOne == \A s \in Lists : Join(s, {}) = {} /\ Join(s, {<<>>}) = {s}
<1>1. \A s \in Lists : s \o <<>> = s
  BY ConcatEmptySeq DEF Lists
<1> QED
  BY <1>1 DEF Join

\* A parser that stands still.
LEMMA DnsSame ==
  ASSUME DnsKept, UNCHANGED <<message, pc, offset, name, questions, answers, ips, result>>
  PROVE  DnsKept'
<1>1. UNCHANGED message
  OBVIOUS
<1>2. DnsTypes' /\ Named' = Named /\ Unread' = Unread
  BY <1>1, DnsStays DEF DnsKept, DnsTypes, Named, Unread, message, name
<1>3. InName' = InName
  BY <1>1, DnsStays DEF InName, message, name
<1>4. SaysWhatItSays' = SaysWhatItSays
  BY <1>1, DnsStays DEF SaysWhatItSays, message
<1> QED
  BY <1>1, <1>2, <1>3, <1>4, DnsStays DEF DnsKept, name

\* It ends, and says what the message says.
LEMMA DnsGivesUp ==
  ASSUME DnsKept, GiveUp, Said = {}
  PROVE  DnsKept'
<1>1. UNCHANGED message /\ pc' = "done"
  BY DEF GiveUp
<1>2. DnsTypes'
  BY DEF DnsKept, DnsTypes, GiveUp, message, name
<1>3. SaysWhatItSays'
  BY <1>1, DnsStays DEF SaysWhatItSays
<1> QED
  BY <1>1, <1>2, <1>3 DEF DnsKept

LEMMA DnsFinishes ==
  ASSUME DnsKept, Finish, Said \subseteq {[qname |-> labels, ips |-> ips]}
  PROVE  DnsKept'
<1>1. UNCHANGED message /\ pc' = "done"
  BY DEF Finish
<1>2. DnsTypes'
  BY DEF DnsKept, DnsTypes, Finish, message, name
<1>3. SaysWhatItSays'
  <2>1. ASSUME NEW s \in Said
        PROVE  result' = IF s.ips = <<>> THEN <<>> ELSE <<s>>
    <3>1. s = [qname |-> labels, ips |-> ips] /\ s.ips = ips
      BY <2>1
    <3> QED
      BY <3>1 DEF Finish
  <2> QED
    BY <1>1, <2>1, DnsStays DEF SaysWhatItSays
<1> QED
  BY <1>1, <1>2, <1>3 DEF DnsKept
LEMMA NoList == <<>> \in Lists
BY EmptySeq DEF Lists

\* It has not begun.
LEMMA DnsKeptInit == PayloadInit => DnsKept
<1> SUFFICES ASSUME PayloadInit PROVE DnsKept
  OBVIOUS
<1>1. CASE ports = "dns"
  <2>1. /\ data \in Messages /\ qdcount \in Counts /\ ancount \in Counts /\ pc = "start"
        /\ offset = 0 /\ pos = 0 /\ jumped = FALSE /\ jump_count = 0 /\ labels = <<>>
        /\ questions = 0 /\ answers = 0 /\ ips = <<>>
    BY <1>1 DEF PayloadInit, Init
  <2>2. data \in Seq(Bytes) /\ qdcount \in Nat /\ ancount \in Nat
    BY <2>1, DnsMessageAssumption
  <2>3. DnsTypes
    <3>1. jumped \in BOOLEAN
      BY <2>1
    <3>2. 0 \in Nat /\ 0 <= MaxJumps
      BY DnsConstants
    <3> QED
      BY <2>1, <2>2, <3>1, <3>2, NoList DEF DnsTypes
  <2> QED
    BY <2>1, <2>3 DEF DnsKept, SaysWhatItSays
<1>2. CASE ports # "dns"
  <2>1. /\ data \in Options /\ qdcount = 0 /\ ancount = 0 /\ pc = "done"
        /\ offset = 0 /\ pos = 0 /\ jumped = FALSE /\ jump_count = 0 /\ labels = <<>>
        /\ questions = 0 /\ answers = 0 /\ ips = <<>>
    BY <1>2 DEF PayloadInit
  <2>2. data \in Seq(Bytes)
    BY <2>1, PayloadsAssumption
  <2>3. DnsTypes
    <3>1. jumped \in BOOLEAN
      BY <2>1
    <3>2. 0 \in Nat /\ 0 <= MaxJumps
      BY DnsConstants
    <3> QED
      BY <2>1, <2>2, <3>1, <3>2, NoList DEF DnsTypes
  <2> QED
    BY <2>1, <2>3 DEF DnsKept, SaysWhatItSays
<1> QED
  BY <1>1, <1>2

\* The header names no question or no answer, or is cut off: nothing is said.
LEMMA DnsStarts ==
  ASSUME DnsKept, Start
  PROVE  DnsKept'
<1>1. UNCHANGED message
  BY DEF Start, GiveUp, message
<1>2. CASE Size < HeaderSize \/ qr # 1 \/ qdcount = 0 \/ ancount = 0
  <2>1. GiveUp
    BY <1>2 DEF Start
  <2>2. DnsTypes'
    BY <2>1 DEF DnsKept, DnsTypes, GiveUp, message, name
  <2>3. ~(qr' = 1 /\ qdcount' > 0 /\ ancount' > 0 /\ Size' >= HeaderSize)
    <3>1. Size \in Nat /\ Size' = Size /\ qr' = qr /\ qdcount' = qdcount /\ ancount' = ancount
      BY <1>1, DnsStays, ByteType DEF message, DnsKept, DnsTypes
    <3>2. HeaderSize \in Nat /\ qdcount \in Nat /\ ancount \in Nat
      BY DnsConstants DEF DnsKept, DnsTypes
    <3> QED
      BY <1>2, <3>1, <3>2
  <2>4. pc' = "done" /\ SaysWhatItSays'
    BY <2>1, <2>3 DEF GiveUp, SaysWhatItSays
  <2> QED
    BY <2>2, <2>4 DEF DnsKept
<1>3. CASE ~(Size < HeaderSize \/ qr # 1 \/ qdcount = 0 \/ ancount = 0)
  <2>1. /\ pc' = "read" /\ offset' = HeaderSize /\ pos' = HeaderSize
        /\ questions' = qdcount - 1 /\ answers' = ancount /\ qdcount # 0
        /\ labels' = <<>> /\ ips' = <<>> /\ jump_count' = 0 /\ ~jumped'
    BY <1>3 DEF Start, DnsKept
  <2>2. DnsTypes'
    <3>1. qdcount - 1 \in Nat /\ MaxJumps \in Nat /\ HeaderSize \in Nat
      BY <2>1, DnsConstants DEF DnsKept, DnsTypes
    <3> QED
      <4>1. jumped' \in BOOLEAN
        BY <2>1, <1>3 DEF Start, DnsKept, DnsTypes
      <4>2. 0 \in Nat /\ 0 <= MaxJumps
        BY <3>1
      <4> QED
        BY <1>1, <2>1, <3>1, <4>1, <4>2, NoList DEF DnsKept, DnsTypes, message
  <2>3. AllLabels = Join(<<>>, NameLabels[<<HeaderSize, MaxJumps - 0>>])
    <3>1. MaxJumps - 0 = MaxJumps /\ <<HeaderSize, MaxJumps>> \in Places
      BY DnsConstants DEF Places
    <3>2. AllLabels \in SUBSET Lists
      BY <3>1, LabelsAre DEF AllLabels, DnsKept, DnsTypes
    <3> QED
      BY <3>1, <3>2, JoinEmpty DEF AllLabels
  <2>4. InName'
    BY <1>1, <2>1, <2>3, DnsStays DEF InName, message
  <2> QED
    BY <2>1, <2>2, <2>4 DEF DnsKept, SaysWhatItSays
<1> QED
  BY <1>2, <1>3

-----------------------------------------------------------------------------
\* The first name, one turn.
LEMMA DnsReads ==
  ASSUME DnsKept, ReadOutside \/ ReadRoot \/ ReadPointer \/ ReadLabel
  PROVE  DnsKept'
<1> DEFINE jumps == MaxJumps - jump_count
           rest  == NameLabels[<<pos, jumps>>]
<1>1. /\ DnsTypes /\ InName /\ pc = "read" /\ data \in Seq(Bytes)
      /\ pos \in Nat /\ labels \in Lists /\ offset \in Nat
  BY DEF DnsKept, DnsTypes, ReadOutside, ReadRoot, ReadPointer, ReadLabel
<1>2. jumps \in Nat /\ Byte(pos) \in Nat /\ Size \in Nat /\ pos + 1 \in Nat
  <2>1. jumps \in Nat
    BY <1>1, DnsConstants DEF DnsTypes
  <2>2. Byte(pos) \in Nat /\ Size \in Nat
    BY <1>1, ByteType
  <2>3. pos + 1 \in Nat
    BY <1>1
  <2> QED
    BY <2>1, <2>2, <2>3
<1>3. rest = IF pos >= Size THEN {}
             ELSE IF Byte(pos) = 0 THEN {<<>>}
             ELSE IF Byte(pos) >= Pointer
               THEN IF Jumps(pos, jumps) THEN NameLabels[<<PointsTo(pos), jumps - 1>>] ELSE {}
             ELSE IF Readable(pos)
               THEN Join(<<<<pos + 1, Byte(pos)>>>>, NameLabels[<<Following(pos), jumps>>])
               ELSE {}
  <2> HIDE DEF jumps
  <2> QED
    BY <1>1, <1>2, LabelsAre
<1>4. AllLabels = Join(labels, rest)
  BY <1>1 DEF InName
<1>5. NameEnd[HeaderSize] = IF jumped THEN {offset} ELSE NameEnd[pos]
  BY <1>1 DEF InName
<1>6. Pointer \in Nat \ {0} /\ MaxJumps \in Nat
  BY DnsConstants
<1> HIDE DEF rest
<1>7. ASSUME rest = {}, GiveUp PROVE DnsKept'
  <2>1. AllLabels = {}
    BY <1>1, <1>4, <1>7, JoinOne
  <2> QED
    BY <1>7, <2>1, SaidIs, DnsGivesUp
<1>8. CASE ReadOutside
  BY <1>3, <1>7, <1>8 DEF ReadOutside
<1>9. CASE ReadRoot
  <2>1. ~(pos >= Size) /\ rest = {<<>>}
    BY <1>1, <1>2, <1>3, <1>9 DEF ReadRoot
  <2>2. AllLabels = {labels}
    BY <1>1, <1>4, <2>1, JoinOne
  <2>3. CASE labels = <<>>
    <3>1. GiveUp
      BY <1>9, <2>3 DEF ReadRoot
    <3> QED
      BY <2>2, <2>3, <3>1, SaidIs, DnsGivesUp
  <2>4. CASE labels # <<>>
    <3> DEFINE end == IF jumped THEN offset ELSE pos + 1
    <3>1. /\ pc' = "question" /\ offset' = end + QuestionSize
          /\ UNCHANGED <<message, name, questions, answers, ips, result>>
      BY <1>9, <2>4 DEF ReadRoot
    <3>2. end \in Nat /\ end + QuestionSize \in Nat
      BY <1>1, <1>2, DnsConstants
    <3>3. NameEnd[HeaderSize] = {end}
      <4>1. Byte(pos) = 0
        BY <1>9 DEF ReadRoot
      <4>2. NameEnd[pos] = {pos + 1}
        BY <1>1, <2>1, <4>1, NameEndIs
      <4> QED
        BY <1>5, <4>2
    <3> HIDE DEF end
    <3>4. DnsTypes'
      BY <1>1, <3>1, <3>2 DEF DnsTypes, message, name
    <3>5. AllEnds = QuestionsEnd[<<end + QuestionSize, questions>>]
      <4>1. qdcount \in Nat /\ qdcount # 0 /\ questions = qdcount - 1 /\ HeaderSize \in Nat
        BY <1>1, DnsConstants DEF InName, DnsTypes
      <4>2. AllEnds = QuestionsFrom({end}, questions)
        BY <1>1, <3>3, <4>1, QuestionsAre DEF AllEnds
      <4> QED
        BY <4>2, FromOne
    <3>6. Unread' /\ AllEnds' = QuestionsEnd'[<<offset', questions'>>]
      BY <1>1, <2>2, <2>4, <3>1, <3>5, DnsStays DEF Unread, Named, InName, message, name
    <3> QED
      BY <3>1, <3>4, <3>6 DEF DnsKept, SaysWhatItSays
  <2> QED
    BY <2>3, <2>4
<1>10. CASE ReadPointer
  <2>1. ~(pos >= Size) /\ Byte(pos) >= Pointer /\ Byte(pos) # 0
    BY <1>1, <1>2, <1>6, <1>10 DEF ReadPointer
  <2>2. CASE pos + 1 >= Size \/ jump_count = MaxJumps
    <3>1. GiveUp
      BY <1>10, <2>2 DEF ReadPointer
    <3>2. ~Jumps(pos, jumps)
      BY <1>6, <2>2 DEF Jumps
    <3> QED
      BY <1>3, <1>7, <2>1, <3>1, <3>2
  <2>3. CASE ~(pos + 1 >= Size \/ jump_count = MaxJumps)
    <3>1. /\ offset' = IF jumped THEN offset ELSE pos + 2
          /\ pos' = PointsTo(pos) /\ jumped' = TRUE /\ jump_count' = jump_count + 1
          /\ UNCHANGED <<message, pc, labels, questions, answers, ips, result>>
      BY <1>10, <2>3 DEF ReadPointer
    <3>2. jump_count + 1 \in Nat /\ jump_count + 1 <= MaxJumps
      BY <1>1, <1>6, <2>3 DEF DnsTypes
    <3>3. Jumps(pos, jumps) /\ jumps - 1 = MaxJumps - (jump_count + 1)
      BY <1>1, <1>6, <2>3 DEF Jumps, DnsTypes
    <3>4. AllLabels = Join(labels, NameLabels[<<PointsTo(pos), MaxJumps - (jump_count + 1)>>])
      <4> HIDE DEF jumps
      <4> QED
        BY <1>3, <1>4, <2>1, <3>3
    <3>5. NameEnd[HeaderSize] = {offset'}
      <4>1. NameEnd[pos] = {pos + 2}
        BY <1>1, <2>1, NameEndIs
      <4> QED
        BY <1>5, <3>1, <4>1
    <3>6. DnsTypes'
      <4>1. PointsTo(pos) \in Nat /\ pos + 2 \in Nat
        BY <1>1, <2>1, PointerLeads
      <4> QED
        BY <1>1, <3>1, <3>2, <4>1 DEF DnsTypes, message
    <3>7. InName'
      BY <1>1, <3>1, <3>4, <3>5, DnsStays DEF InName, message
    <3> QED
      BY <1>1, <3>1, <3>6, <3>7 DEF DnsKept, SaysWhatItSays
  <2> QED
    BY <2>2, <2>3
<1>11. CASE ReadLabel
  <2>1. ~(pos >= Size) /\ ~(Byte(pos) >= Pointer) /\ Byte(pos) # 0
    BY <1>1, <1>2, <1>6, <1>11 DEF ReadLabel
  <2>2. CASE ~Readable(pos)
    <3>1. GiveUp
      BY <1>11, <2>2 DEF ReadLabel, Readable
    <3> QED
      BY <1>3, <1>7, <2>1, <2>2, <3>1
  <2>3. CASE Readable(pos)
    <3> DEFINE label == <<pos + 1, Byte(pos)>>
    <3>1. /\ labels' = Append(labels, label) /\ pos' = Following(pos)
          /\ UNCHANGED <<message, pc, offset, jumped, jump_count,
                         questions, answers, ips, result>>
      BY <1>11, <2>3 DEF ReadLabel, Readable, Following
    <3>2. <<label>> \in Lists /\ labels' = labels \o <<label>> /\ labels' \in Lists
      <4>1. label \in Nat \X Nat
        BY <1>2
      <4> HIDE DEF label
      <4> QED
        BY <1>1, <3>1, <4>1, AppendProperties, AppendIsConcat DEF Lists
    <3>3. Following(pos) \in Nat
      BY <1>1, LabelFollows
    <3>4. DnsTypes'
      BY <1>1, <3>1, <3>2, <3>3 DEF DnsTypes, message
    <3>5. AllLabels = Join(labels', NameLabels[<<Following(pos), jumps>>])
      <4>1. NameLabels[<<Following(pos), jumps>>] \in SUBSET Lists
        <5>1. <<Following(pos), jumps>> \in Places
          BY <1>2, <3>3 DEF Places
        <5> QED
          BY <1>1, <5>1, LabelsAre
      <4>2. rest = Join(<<label>>, NameLabels[<<Following(pos), jumps>>])
        BY <1>3, <2>1, <2>3
      <4> HIDE DEF label, jumps
      <4> QED
        BY <1>1, <1>4, <3>2, <4>1, <4>2, JoinJoin
    <3>6. NameEnd[Following(pos)] = NameEnd[pos]
      BY <1>1, <2>1, NameEndIs
    <3>7. InName'
      BY <1>1, <1>5, <3>1, <3>5, <3>6, DnsStays DEF InName, message
    <3> QED
      BY <1>1, <3>1, <3>4, <3>7 DEF DnsKept, SaysWhatItSays
  <2> QED
    BY <2>2, <2>3
<1> QED
  BY <1>8, <1>9, <1>10, <1>11

-----------------------------------------------------------------------------
\* A name that is passed, one turn.  Past the data nothing is said.
LEMMA DnsSkips ==
  ASSUME DnsKept, SkipOutside \/ SkipRoot \/ SkipPointer \/ SkipLabel
  PROVE  DnsKept'
<1>1. /\ DnsTypes /\ Skipping /\ data \in Seq(Bytes) /\ offset \in Nat
      /\ questions \in Nat /\ answers \in Nat /\ ips \in Lists
  BY DEF DnsKept, DnsTypes, SkipOutside, SkipRoot, SkipPointer, SkipLabel
<1>2. /\ Byte(offset) \in Nat /\ Size \in Nat /\ Pointer \in Nat \ {0} /\ QuestionSize \in Nat
  BY <1>1, ByteType, DnsConstants
<1>3. /\ pc = "skip_question" =>
           Unread /\ AllEnds = QuestionsFrom(NameEnd[offset], questions)
      /\ pc = "skip_answer" =>
           Named /\ AllFound = Join(ips, RecordsFrom(NameEnd[offset], answers))
  BY DEF DnsKept
<1>4. CASE SkipOutside
  <2>1. NameEnd[offset] = {} /\ GiveUp
    BY <1>1, <1>4, NameEndIs DEF SkipOutside
  <2>2. AllFound = {}
    <3>1. CASE pc = "skip_question"
      <4>1. AllEnds = {}
        BY <1>3, <2>1, <3>1, FromOne
      <4> QED
        BY <4>1 DEF AllFound
    <3>2. CASE pc = "skip_answer"
      BY <1>1, <1>3, <2>1, <3>2, FromOne, JoinOne
    <3> QED
      BY <1>1, <3>1, <3>2 DEF Skipping
  <2> QED
    BY <2>1, <2>2, SaidIs, DnsGivesUp
<1>5. ASSUME NEW end \in Nat, NameEnd[offset] = {end}, Skipped(end)
      PROVE  DnsKept'
  <2>1. /\ UNCHANGED <<message, name, questions, answers, ips, result>>
        /\ pc = "skip_question" => pc' = "question" /\ offset' = end + QuestionSize
        /\ pc = "skip_answer" => pc' = "record" /\ offset' = end
    BY <1>5 DEF Skipped
  <2>2. DnsTypes'
    <3>1. offset' \in Nat
      BY <1>1, <1>2, <2>1 DEF Skipping
    <3> QED
      BY <1>1, <2>1, <3>1 DEF DnsTypes, message, name
  <2>3. CASE pc = "skip_question"
    <3>1. Unread /\ AllEnds = QuestionsEnd[<<end + QuestionSize, questions>>]
      BY <1>3, <1>5, <2>3, FromOne
    <3>2. Unread' /\ AllEnds' = QuestionsEnd'[<<offset', questions'>>]
      BY <2>1, <2>3, <3>1, DnsStays DEF Unread, Named, message, name
    <3> QED
      BY <2>1, <2>2, <2>3, <3>2 DEF DnsKept, SaysWhatItSays
  <2>4. CASE pc = "skip_answer"
    <3>1. Named /\ AllFound = Join(ips, RecordsFrom({end}, answers))
      BY <1>3, <1>5, <2>4
    <3>2. Named' /\ AllFound' = Join(ips', RecordsFrom({offset}, answers)')
      <4>1. RecordsFrom({offset}, answers)' = RecordsFrom({offset'}, answers')
        BY <2>1, DnsStays
      <4> QED
        BY <2>1, <2>4, <3>1, <4>1, DnsStays DEF Named, message, name
    <3> QED
      BY <2>1, <2>2, <2>4, <3>2 DEF DnsKept, SaysWhatItSays
  <2> QED
    BY <1>1, <2>3, <2>4 DEF Skipping
<1>6. CASE SkipRoot
  <2>1. NameEnd[offset] = {offset + 1} /\ offset + 1 \in Nat
    <3>1. ~(offset >= Size) /\ Byte(offset) = 0
      BY <1>1, <1>2, <1>6 DEF SkipRoot
    <3>2. NameEnd[offset] = {offset + 1}
      BY <1>1, <3>1, NameEndIs
    <3> QED
      BY <1>1, <3>2
  <2> QED
    BY <1>5, <1>6, <2>1 DEF SkipRoot
<1>7. CASE SkipPointer
  <2>1. NameEnd[offset] = {offset + 2} /\ offset + 2 \in Nat
    <3>1. ~(offset >= Size) /\ Byte(offset) # 0 /\ Byte(offset) >= Pointer
      BY <1>1, <1>2, <1>7 DEF SkipPointer
    <3>2. NameEnd[offset] = {offset + 2}
      BY <1>1, <3>1, NameEndIs
    <3> QED
      BY <1>1, <3>2
  <2> QED
    BY <1>5, <1>7, <2>1 DEF SkipPointer
<1>8. CASE SkipLabel
  <2>1. /\ offset' = Following(offset)
        /\ UNCHANGED <<message, pc, name, questions, answers, ips, result>>
    BY <1>8 DEF SkipLabel, Following
  <2>2. NameEnd[offset] = NameEnd[Following(offset)]
    <3>1. ~(offset >= Size) /\ Byte(offset) # 0 /\ ~(Byte(offset) >= Pointer)
      BY <1>1, <1>2, <1>8 DEF SkipLabel
    <3> QED
      BY <1>1, <3>1, NameEndIs
  <2>3. DnsTypes'
    BY <1>1, <2>1, LabelFollows DEF DnsTypes, message, name
  <2>4. /\ QuestionsFrom(NameEnd[offset], questions)' = QuestionsFrom(NameEnd[offset], questions)
        /\ RecordsFrom(NameEnd[offset], answers)' = RecordsFrom(NameEnd[offset], answers)
    BY <2>1, <2>2, DnsStays
  <2>5. /\ Named' = Named /\ Unread' = Unread
        /\ AllEnds' = AllEnds /\ AllFound' = AllFound
    BY <2>1, DnsStays DEF Named, Unread, message, name
  <2> QED
    BY <1>1, <1>3, <2>1, <2>3, <2>4, <2>5 DEF DnsKept, SaysWhatItSays, Skipping
<1> QED
  BY <1>4, <1>6, <1>7, <1>8

-----------------------------------------------------------------------------
\* The loops of questions and answers: the next one, or the end.
LEMMA DnsTurns ==
  ASSUME DnsKept, NextQuestion \/ NextAnswer
  PROVE  DnsKept'
<1>1. /\ DnsTypes /\ data \in Seq(Bytes) /\ offset \in Nat
      /\ questions \in Nat /\ answers \in Nat /\ ancount \in Nat /\ ips \in Lists
  BY DEF DnsKept, DnsTypes
<1>2. CASE NextQuestion
  <2>1. Unread /\ AllEnds = QuestionsEnd[<<offset, questions>>]
    BY <1>2 DEF DnsKept, NextQuestion
  <2>2. UNCHANGED <<message, offset, name, answers, ips, result>>
    BY <1>2 DEF NextQuestion
  <2>3. Unread' = Unread /\ Named' = Named /\ AllEnds' = AllEnds /\ AllFound' = AllFound
    BY <2>2, DnsStays DEF Named, Unread, message, name
  <2>4. CASE questions > 0
    <3>1. pc' = "skip_question" /\ questions' = questions - 1
      BY <1>2, <2>4 DEF NextQuestion
    <3>2. DnsTypes'
      <4>1. questions - 1 \in Nat
        BY <1>1, <2>4
      <4> QED
        BY <1>1, <2>2, <3>1, <4>1 DEF DnsTypes, message, name
    <3>3. AllEnds = QuestionsFrom(NameEnd[offset], questions')
      <4>1. questions # 0
        BY <1>1, <2>4
      <4>2. QuestionsEnd[<<offset, questions>>] = QuestionsFrom(NameEnd[offset], questions - 1)
        BY <1>1, <4>1, QuestionsAre
      <4> QED
        BY <2>1, <3>1, <4>2
    <3>4. AllEnds' = QuestionsFrom(NameEnd[offset], questions)'
      BY <2>2, <2>3, <3>3, DnsStays
    <3> QED
      BY <2>1, <2>3, <3>1, <3>2, <3>4 DEF DnsKept, SaysWhatItSays
  <2>5. CASE ~(questions > 0)
    <3>1. pc' = "answer" /\ questions' = 0 /\ questions = 0
      BY <1>1, <1>2, <2>5 DEF NextQuestion
    <3>2. DnsTypes'
      BY <1>1, <2>2, <3>1 DEF DnsTypes, message, name
    <3>3. RecordsAt[<<offset, ancount>>] \in SUBSET Lists
      <4>1. <<offset, ancount>> \in Places
        BY <1>1 DEF Places
      <4> QED
        BY <1>1, <4>1, RecordsAre
    <3>4. AllFound = Join(ips, RecordsAt[<<offset, answers>>])
      <4>1. AllEnds = {offset}
        BY <1>1, <2>1, <3>1, QuestionsAre
      <4>2. AllFound = RecordsAt[<<offset, ancount>>]
        BY <4>1 DEF AllFound
      <4> QED
        BY <2>1, <3>3, <4>2, JoinEmpty DEF Unread
    <3>5. AllFound' = Join(ips', RecordsAt'[<<offset', answers'>>])
      BY <2>2, <2>3, <3>4, DnsStays
    <3> QED
      BY <2>1, <2>3, <3>1, <3>2, <3>5 DEF DnsKept, SaysWhatItSays, Unread
  <2> QED
    BY <2>4, <2>5
<1>3. CASE NextAnswer
  <2>1. Named /\ AllFound = Join(ips, RecordsAt[<<offset, answers>>])
    BY <1>3 DEF DnsKept, NextAnswer
  <2>2. RecordsAt[<<offset, answers>>] =
          IF answers = 0 THEN {<<>>} ELSE RecordsFrom(NameEnd[offset], answers - 1)
    BY <1>1, RecordsAre
  <2>3. CASE answers = 0
    <3>1. AllFound = {ips} /\ AllLabels = {labels}
      BY <1>1, <2>1, <2>2, <2>3, JoinOne DEF Named
    <3>2. Finish
      BY <1>3, <2>3 DEF NextAnswer
    <3> QED
      BY <3>1, <3>2, SaidIs, DnsFinishes
  <2>4. CASE answers # 0 /\ offset >= Size
    <3>1. AllFound = {}
      <4>1. NameEnd[offset] = {}
        BY <1>1, <2>4, NameEndIs
      <4> QED
        BY <1>1, <2>1, <2>2, <2>4, <4>1, FromOne, JoinOne
    <3>2. Finish
      BY <1>3, <2>4 DEF NextAnswer
    <3> QED
      BY <3>1, <3>2, SaidIs, DnsFinishes
  <2>5. CASE answers # 0 /\ ~(offset >= Size)
    <3>1. /\ pc' = "skip_answer" /\ answers' = answers - 1 /\ answers' \in Nat
          /\ UNCHANGED <<message, offset, name, questions, ips, result>>
      BY <1>1, <1>3, <2>5 DEF NextAnswer
    <3>2. DnsTypes'
      BY <1>1, <3>1 DEF DnsTypes, message, name
    <3>3. AllFound = Join(ips, RecordsFrom(NameEnd[offset], answers'))
      BY <2>1, <2>2, <2>5, <3>1
    <3>4. Named' /\ AllFound' = Join(ips', RecordsFrom(NameEnd[offset], answers)')
      BY <2>1, <3>1, <3>3, DnsStays DEF Named, message, name
    <3> QED
      BY <3>1, <3>2, <3>4 DEF DnsKept, SaysWhatItSays
  <2> QED
    BY <2>3, <2>4, <2>5
<1> QED
  BY <1>2, <1>3

\* A record is read, or the data ends in it.
LEMMA DnsReadsRecord ==
  ASSUME DnsKept, ReadRecord
  PROVE  DnsKept'
<1> DEFINE rest == RecordsAt[<<RecordEnd(offset), answers>>]
<1>1. /\ DnsTypes /\ data \in Seq(Bytes) /\ offset \in Nat /\ answers \in Nat /\ ips \in Lists
  BY DEF DnsKept, DnsTypes
<1>2. Named /\ AllFound = Join(ips, RecordsFrom({offset}, answers))
  BY DEF DnsKept, ReadRecord
<1>3. /\ RecordEnd(offset) \in Nat /\ RecordData(offset) \in Nat
      /\ RecordAddress(offset) \in Lists
  BY <1>1, RecordIs
<1>4. Size \in Nat /\ RecordData(offset) <= RecordEnd(offset)
  <2>1. PICK i \in Nat : i = offset + LengthAt
    BY <1>1, DnsConstants
  <2>2. Byte(offset + LengthAt) \in Nat /\ Size \in Nat
    BY <1>1, <2>1, ByteType
  <2> QED
    BY <1>3, <2>2 DEF RecordEnd
<1>5. RecordsFrom({offset}, answers) =
        IF RecordEnd(offset) <= Size THEN Join(RecordAddress(offset), rest) ELSE {}
  BY FromOne
<1>6. CASE ~(RecordEnd(offset) <= Size)
  <2>1. Finish
    BY <1>3, <1>4, <1>6 DEF ReadRecord, RecordEnd, RecordData
  <2>2. AllFound = {}
    BY <1>1, <1>2, <1>5, <1>6, JoinOne
  <2> QED
    BY <2>1, <2>2, SaidIs, DnsFinishes
<1>7. CASE RecordEnd(offset) <= Size
  <2>1. /\ pc' = "answer" /\ offset' = RecordEnd(offset)
        /\ UNCHANGED <<message, name, questions, answers, result>>
    BY <1>3, <1>4, <1>7 DEF ReadRecord, RecordEnd, RecordData
  <2>2. ips' = ips \o RecordAddress(offset) /\ ips' \in Lists
    <3> DEFINE address == <<RecordData(offset), Byte(offset + LengthAt)>>
               holds   == <<Byte(offset + TypeAt), Byte(offset + LengthAt)>>
                            \in {<<TypeA, SizeA>>, <<TypeAaaa, SizeAaaa>>}
    <3>1. ips' = IF holds THEN Append(ips, address) ELSE ips
      BY <1>3, <1>4, <1>7 DEF ReadRecord, RecordEnd, RecordData
    <3>2. RecordAddress(offset) = IF holds THEN <<address>> ELSE <<>>
      BY DEF RecordAddress
    <3> HIDE DEF address, holds
    <3>3. ips \o <<>> = ips
      BY <1>1, ConcatEmptySeq DEF Lists
    <3>4. CASE holds
      <4>1. address \in Nat \X Nat
        <5>1. PICK i \in Nat : i = offset + LengthAt
          BY <1>1, DnsConstants
        <5>2. Byte(offset + LengthAt) \in Nat
          BY <1>1, <5>1, ByteType
        <5> QED
          BY <1>3, <5>2 DEF address
      <4> QED
        BY <1>1, <3>1, <3>2, <3>4, <4>1, AppendProperties, AppendIsConcat DEF Lists
    <3>5. CASE ~holds
      BY <1>1, <3>1, <3>2, <3>3, <3>5
    <3> QED
      BY <3>4, <3>5
  <2>3. DnsTypes'
    BY <1>1, <1>3, <2>1, <2>2 DEF DnsTypes, message, name
  <2>4. AllFound = Join(ips', rest)
    <3>1. rest \in SUBSET Lists
      <4>1. <<RecordEnd(offset), answers>> \in Places
        BY <1>1, <1>3 DEF Places
      <4> QED
        BY <1>1, <4>1, RecordsAre
    <3> HIDE DEF rest
    <3> QED
      BY <1>1, <1>2, <1>3, <1>5, <1>7, <2>2, <3>1, JoinJoin
  <2>5. Named' /\ AllFound' = Join(ips', RecordsAt'[<<offset', answers'>>])
    BY <1>2, <2>1, <2>4, DnsStays DEF Named, message, name
  <2> QED
    BY <2>1, <2>3, <2>5 DEF DnsKept, SaysWhatItSays
<1> QED
  BY <1>6, <1>7

-----------------------------------------------------------------------------
\* A response says its name and its addresses, in order: no question and no
\* record makes the loops of packet.rs:286-337 lose their place.
THEOREM SaysWhatItSaysHolds == PayloadSpec => []SaysWhatItSays
<1>1. PayloadInit => DnsKept
  BY DnsKeptInit
<1>2. ASSUME DnsKept, [PayloadNext]_allVars
      PROVE  DnsKept'
  <2>1. CASE Next
    <3>1. CASE Returned
      BY <1>2, <3>1, DnsSame DEF Returned, vars, message, name
    <3> QED
      BY <1>2, <2>1, <3>1, DnsStarts, DnsReads, DnsSkips, DnsTurns, DnsReadsRecord DEF Next
  <2>2. CASE ~Next
    <3>1. UNCHANGED <<message, pc, offset, name, questions, answers, ips, result>>
      BY <1>2, <2>2 DEF PayloadNext, Header, Pad, WalkEnds, Option, allVars, vars, message, name
    <3> QED
      BY <1>2, <3>1, DnsSame
  <2> QED
    BY <2>1, <2>2
<1>3. DnsKept => SaysWhatItSays
  BY DEF DnsKept
<1> QED
  BY <1>1, <1>2, <1>3, PTL DEF PayloadSpec
=============================================================================
