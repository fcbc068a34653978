---------------------------- MODULE UiLoopProofs ----------------------------
(***************************************************************************)
(* Theorems about GeoLookup, for every set of addresses and every limit,   *)
(* and about UiLoop, for every network, every bound on the channels and    *)
(* every number of packets in a turn.                                      *)
(*                                                                         *)
(* The argument for GeoLookup follows the queue a lookup moves through:    *)
(* the three places it can be in, read from the oldest to the newest, are  *)
(* one line; the geo thread does not change it, the UI adds at one end and *)
(* takes from the other.  A step of UiLoop is a step of GeoLookup or       *)
(* leaves its variables alone, so what holds of the slots and the          *)
(* placeholders holds with the capture thread and the limits in the way.   *)
(***************************************************************************)
EXTENDS UiLoop, SequenceTheorems, TLAPS

\* The parts of the line.
Answered == [i \in 1..Len(res) |-> res[i][1]]
Asked    == IF asking = NoIp THEN <<>> ELSE <<asking>>

\* ConcatProperties for sequences of addresses.
LEMMA Concat ==
  ASSUME NEW s \in Seq(Ip), NEW t \in Seq(Ip)
  PROVE  /\ s \o t \in Seq(Ip)
         /\ Len(s \o t) = Len(s) + Len(t)
         /\ \A i \in 1..(Len(s) + Len(t)) :
              (s \o t)[i] = IF i <= Len(s) THEN s[i] ELSE t[i - Len(s)]
BY ConcatProperties

\* ConcatAssociative for sequences of addresses.
LEMMA Assoc ==
  ASSUME NEW s \in Seq(Ip), NEW t \in Seq(Ip), NEW u \in Seq(Ip)
  PROVE  (s \o t) \o u = s \o (t \o u)
BY ConcatAssociative

\* The line is a sequence of addresses, part after part.
LEMMA LineParts ==
  ASSUME TypeOK
  PROVE  /\ Line = Answered \o Asked \o req
         /\ Answered \in Seq(Ip) /\ Asked \in Seq(Ip) /\ req \in Seq(Ip)
         /\ Len(Answered) = Len(res)
         /\ Line \in Seq(Ip)
         /\ Len(Line) = Len(res) + Len(Asked) + Len(req)
<1>1. Line = Answered \o Asked \o req
  BY DEF Line, Answered, Asked
<1>2. Answered \in Seq(Ip) /\ Len(Answered) = Len(res)
  BY DEF TypeOK, Answered
<1>3. Asked \in Seq(Ip) /\ req \in Seq(Ip)
  <2>1. asking # NoIp => <<asking>> \in Seq(Ip)
    BY DEF TypeOK
  <2>2. <<>> \in Seq(Ip)
    OBVIOUS
  <2> QED
    BY <2>1, <2>2 DEF TypeOK, Asked
<1>4. /\ Answered \o Asked \in Seq(Ip)
      /\ Len(Answered \o Asked) = Len(res) + Len(Asked)
  BY <1>2, <1>3, Concat
<1> QED
  BY <1>1, <1>2, <1>3, <1>4, Concat

\* What a packet asks for: one or two addresses without an entry, no more
\* than there are slots left.
LEMMA LookupsFacts ==
  ASSUME TypeOK, geo_in_flight <= MaxInFlight, NEW dst, NEW src
  PROVE  /\ Lookups(dst, src) \in Seq(Ip)
         /\ Len(Lookups(dst, src)) \in Nat
         /\ geo_in_flight + Len(Lookups(dst, src)) <= MaxInFlight
         /\ IsInjective(Lookups(dst, src))
         /\ \A i \in 1..Len(Lookups(dst, src)) :
              geo_cache[Lookups(dst, src)[i]] = "none"
<1> DEFINE Wanted(ip, n) ==
             ip \in Ip /\ geo_cache[ip] = "none" /\ n < MaxInFlight
           first == IF Wanted(dst, geo_in_flight) THEN <<dst>> ELSE <<>>
           second == IF Wanted(src, geo_in_flight + Len(first)) /\ src # dst
                       THEN <<src>> ELSE <<>>
<1>1. Lookups(dst, src) = first \o second
  BY DEF Lookups
<1>2. geo_in_flight \in Nat /\ MaxInFlight \in Nat
  BY GeoAssumption DEF TypeOK
<1>3. ASSUME NEW ip \in Ip
      PROVE  /\ <<ip>> \in Seq(Ip) /\ Len(<<ip>>) = 1
             /\ <<>> \o <<ip>> = <<ip>> /\ <<ip>> \o <<>> = <<ip>>
  <2>1. <<ip>> \in Seq(Ip)
    OBVIOUS
  <2> QED
    BY <2>1, ConcatEmptySeq
<1>4. CASE first = <<>> /\ second = <<>>
  <2>1. Lookups(dst, src) = <<>>
    BY <1>1, <1>4
  <2> QED
    BY <1>2, <2>1 DEF IsInjective
<1>5. CASE first = <<dst>> /\ second = <<>> /\ Wanted(dst, geo_in_flight)
  <2>1. Lookups(dst, src) = <<dst>>
    BY <1>1, <1>3, <1>5
  <2> QED
    BY <1>2, <1>5, <2>1 DEF IsInjective
<1>6. CASE first = <<>> /\ second = <<src>> /\ Wanted(src, geo_in_flight)
  <2>1. Lookups(dst, src) = <<src>>
    BY <1>1, <1>3, <1>6
  <2> QED
    BY <1>2, <1>6, <2>1 DEF IsInjective
<1>7. CASE /\ first = <<dst>> /\ second = <<src>> /\ src # dst
           /\ Wanted(dst, geo_in_flight) /\ Wanted(src, geo_in_flight + 1)
  <2>1. Lookups(dst, src) \in Seq(Ip) /\ Len(Lookups(dst, src)) = 2
    BY <1>1, <1>3, <1>7, Concat
  <2>2. Lookups(dst, src)[1] = dst /\ Lookups(dst, src)[2] = src
    BY <1>1, <1>3, <1>7, Concat
  <2> QED
    BY <1>2, <1>7, <2>1, <2>2 DEF IsInjective
<1>8. \/ first = <<>>
      \/ first = <<dst>> /\ Wanted(dst, geo_in_flight) /\ Len(first) = 1
  OBVIOUS
<1>9. \/ second = <<>>
      \/ /\ second = <<src>> /\ src # dst
         /\ Wanted(src, geo_in_flight + Len(first))
  OBVIOUS
<1>10. first = <<>> => geo_in_flight + Len(first) = geo_in_flight
  BY <1>2
<1> HIDE DEF first, second
<1> QED
  BY <1>4, <1>5, <1>6, <1>7, <1>8, <1>9, <1>10

-----------------------------------------------------------------------------
(***************************************************************************)
(* Type correctness and the number of slots in use.                        *)
(***************************************************************************)
\* The geo thread moves a lookup along the line and changes nothing else.
LEMMA GeoThreadKeepsLine ==
  ASSUME TypeOK, GeoThread
  PROVE  TypeOK' /\ Line' = Line /\ UNCHANGED uiVars
<1>1. CASE TakeRequest
  <2>1. TypeOK'
    BY <1>1 DEF TakeRequest, TypeOK, uiVars
  <2>2. Asked = <<>> /\ Asked' = <<Head(req)>> /\ Answered' = Answered
    BY <1>1, <2>1, GeoAssumption
    DEF TakeRequest, Asked, Answered, TypeOK
  <2>3. /\ Head(req) \in Ip /\ req' \in Seq(Ip)
        /\ <<Head(req)>> \o req' = req
    BY <1>1 DEF TakeRequest, TypeOK
  <2>4. <<Head(req)>> \in Seq(Ip)
    BY <2>3
  <2>5. Line' = (Answered \o <<Head(req)>>) \o req'
    BY <2>2 DEF Line, Answered, Asked
  <2>6. Line = (Answered \o <<>>) \o req
    BY <2>2 DEF Line, Answered, Asked
  <2>7. Line' = Answered \o (<<Head(req)>> \o req')
    <3> DEFINE h == <<Head(req)>>
    <3>1. h \in Seq(Ip) /\ req' \in Seq(Ip) /\ Line' = (Answered \o h) \o req'
      BY <2>3, <2>4, <2>5
    <3> HIDE DEF h
    <3>2. (Answered \o h) \o req' = Answered \o (h \o req')
      <4>1. Answered \in Seq(Ip)
        BY LineParts
      <4> QED
        BY <3>1, <4>1, Assoc, Zenon
    <3>3. Line' = Answered \o (h \o req')
      BY <3>1, <3>2
    <3> QED
      BY <3>3 DEF h
  <2>8. Line = Answered \o req
    BY <2>6, LineParts, ConcatEmptySeq
  <2> QED
    BY <1>1, <2>1, <2>3, <2>7, <2>8 DEF TakeRequest
<1>2. CASE Respond
  <2>1. PICK answer \in Answer : res' = Append(res, <<asking, answer>>)
    BY <1>2 DEF Respond
  <2>2. asking \in Ip /\ asking' = NoIp
    BY <1>2 DEF Respond, TypeOK
  <2>3. TypeOK'
    BY <1>2, <2>1, <2>2 DEF Respond, TypeOK, uiVars
  <2>4. Asked = <<asking>> /\ Asked' = <<>>
    BY <2>2, GeoAssumption DEF Asked
  <2>5. Answered' = Answered \o Asked
    <3>1. Len(res') = Len(res) + 1 /\ Len(res) \in Nat
      BY <2>1, <2>2 DEF TypeOK
    <3>2. \A i \in 1..Len(res') :
            res'[i][1] = IF i <= Len(res) THEN res[i][1] ELSE asking
      BY <2>1, <2>2, <3>1 DEF TypeOK
    <3>3. /\ Answered \o Asked \in Seq(Ip)
          /\ Len(Answered \o Asked) = Len(res) + 1
          /\ \A i \in 1..(Len(res) + 1) :
               (Answered \o Asked)[i] =
                 IF i <= Len(res) THEN Answered[i] ELSE Asked[i - Len(res)]
      BY <2>4, <3>1, LineParts, Concat
    <3>4. /\ Answered' \in Seq(Ip) /\ Len(Answered') = Len(res) + 1
      BY <2>3, <3>1, LineParts, GeoAssumption DEF Answered, TypeOK
    <3>5. \A i \in 1..(Len(res) + 1) : Answered'[i] = (Answered \o Asked)[i]
      BY <2>4, <3>1, <3>2, <3>3 DEF Answered
    <3> QED
      BY <3>3, <3>4, <3>5, SeqEqual
  <2>6. Line' = Answered' \o Asked' \o req' /\ req' = req
    BY <1>2 DEF Line, Answered, Asked, Respond
  <2>7. Answered' \o Asked' = Answered'
    BY <2>4, <2>5, LineParts, Concat, ConcatEmptySeq
  <2> QED
    BY <1>2, <2>3, <2>5, <2>6, <2>7, LineParts DEF Respond
<1> QED
  BY <1>1, <1>2 DEF GeoThread

\* Draining takes the oldest lookup out of the line.
LEMMA DrainTakesFirst ==
  ASSUME TypeOK, DrainResult
  PROVE  /\ Head(res)[1] \in Ip /\ Line' \in Seq(Ip)
         /\ Line = <<Head(res)[1]>> \o Line'
<1> DEFINE h == Head(res)[1]
<1>1. /\ Len(res) \in Nat \ {0} /\ Len(res') = Len(res) - 1
      /\ \A i \in 1..Len(res') : res'[i] = res[i + 1]
      /\ res[1] = Head(res) /\ res' \in Seq(Ip \X Answer)
      /\ h \in Ip
  BY DEF TypeOK, DrainResult
<1>2. Asked' = Asked /\ req' = req
  BY DEF DrainResult, Asked
<1>3. Answered' \in Seq(Ip) /\ Len(Answered') = Len(res')
  <2>1. \A i \in 1..Len(res') : res'[i][1] \in Ip
    BY <1>1
  <2> QED
    BY <1>1, <2>1 DEF Answered
<1>4. <<h>> \in Seq(Ip) /\ Len(<<h>>) = 1 /\ <<h>>[1] = h
  BY <1>1
<1>5. Answered = <<h>> \o Answered'
  <2>1. /\ <<h>> \o Answered' \in Seq(Ip)
        /\ Len(<<h>> \o Answered') = Len(res)
        /\ \A i \in 1..Len(res) :
             (<<h>> \o Answered')[i] = IF i <= 1 THEN <<h>>[i]
                                                ELSE Answered'[i - 1]
    <3> HIDE DEF h
    <3>1. 1 + Len(Answered') = Len(res)
      BY <1>1, <1>3
    <3> QED
      BY <1>3, <1>4, <3>1, Concat
  <2>2. ASSUME NEW i \in 1..Len(res)
        PROVE  Answered[i] = (<<h>> \o Answered')[i]
    <3>1. CASE i = 1
      BY <1>1, <1>4, <2>1, <3>1 DEF Answered
    <3>2. CASE i # 1
      <4>1. i - 1 \in 1..Len(res')
        BY <1>1, <3>2
      <4>2. res'[i - 1] = res[i]
        BY <1>1, <4>1
      <4>3. Answered'[i - 1] = res'[i - 1][1]
        BY <4>1 DEF Answered
      <4>4. (<<h>> \o Answered')[i] = Answered'[i - 1]
        BY <2>1, <3>2
      <4> QED
        BY <4>2, <4>3, <4>4 DEF Answered
    <3> QED
      BY <3>1, <3>2
  <2> QED
    BY <2>1, <2>2, LineParts, SeqEqual
<1>6. Line' = (Answered' \o Asked) \o req
  BY <1>2 DEF Line, Answered, Asked
<1>7. Answered' \o Asked \in Seq(Ip) /\ (Answered' \o Asked) \o req \in Seq(Ip)
  BY <1>3, LineParts, Concat
<1>8. Line = <<h>> \o Line'
  <2> HIDE DEF h
  <2>1. (<<h>> \o Answered') \o Asked = <<h>> \o (Answered' \o Asked)
    BY <1>3, <1>4, LineParts, Assoc
  <2>2. Line = (<<h>> \o (Answered' \o Asked)) \o req
    BY <1>5, <2>1, LineParts
  <2>3. (<<h>> \o (Answered' \o Asked)) \o req
          = <<h>> \o ((Answered' \o Asked) \o req)
    BY <1>4, <1>7, LineParts, Assoc
  <2> QED
    BY <1>6, <2>2, <2>3
<1> QED
  BY <1>1, <1>6, <1>7, <1>8

\* A packet adds what it asks for at the end of the line.
LEMMA PacketExtendsLine ==
  ASSUME TypeOK, geo_in_flight <= MaxInFlight, NEW dst, NEW src,
         ShowPacket(dst, src)
  PROVE  TypeOK' /\ Line' = Line \o Lookups(dst, src)
<1> DEFINE ips == Lookups(dst, src)
<1>1. ips \in Seq(Ip) /\ Len(ips) \in Nat
  BY LookupsFacts
<1>2. /\ req' = req \o ips /\ geo_in_flight' = geo_in_flight + Len(ips)
      /\ res' = res /\ asking' = asking /\ ui' = ui /\ paused' = paused
      /\ geo_cache' = [ip \in Ip |-> IF ip \in ToSet(ips) THEN "pending"
                                                          ELSE geo_cache[ip]]
  BY DEF ShowPacket
<1> HIDE DEF ips
<1>3. TypeOK'
  <2>1. req' \in Seq(Ip)
    BY <1>1, <1>2, LineParts, Concat
  <2>2. geo_cache' \in [Ip -> Cached]
    BY <1>2 DEF TypeOK, Cached
  <2> QED
    BY <1>1, <1>2, <2>1, <2>2 DEF TypeOK
<1>4. Line' = (Answered \o Asked) \o (req \o ips)
  BY <1>2 DEF Line, Answered, Asked
<1>5. (Answered \o Asked) \o (req \o ips) = ((Answered \o Asked) \o req) \o ips
  <2>1. Answered \o Asked \in Seq(Ip)
    BY LineParts, Concat
  <2> QED
    BY <1>1, <2>1, LineParts, Assoc
<1>6. Line' = Line \o ips
  BY <1>4, <1>5, LineParts
<1> QED
  BY <1>3, <1>6 DEF ips

\* The type invariant and the count of slots, inductive together.
Slots == TypeOK /\ SlotsAreExact

LEMMA SlotsStep ==
  ASSUME Slots, [Next]_vars
  PROVE  Slots'
<1> USE DEF Slots
<1>1. CASE DrainResult
  <2>1. /\ Head(res)[1] \in Ip /\ Line' \in Seq(Ip)
        /\ Line = <<Head(res)[1]>> \o Line'
    BY <1>1, DrainTakesFirst
  <2>2. Len(Line) = 1 + Len(Line') /\ Len(Line') \in Nat
    <3> DEFINE h == Head(res)[1]
    <3>1. <<h>> \in Seq(Ip) /\ Len(<<h>>) = 1
      BY <2>1
    <3> HIDE DEF h
    <3>2. Line = <<h>> \o Line'
      BY <2>1 DEF h
    <3> QED
      BY <2>1, <3>1, <3>2, Concat
  <2>3. SlotsAreExact'
    BY <1>1, <2>2, GeoAssumption DEF DrainResult, SlotsAreExact, TypeOK
  <2>4. TypeOK'
    <3>1. Head(res) \in Ip \X Answer /\ res' \in Seq(Ip \X Answer)
      BY <1>1 DEF DrainResult, TypeOK
    <3>2. geo_cache' \in [Ip -> Cached]
      BY <1>1, <3>1 DEF DrainResult, TypeOK, Cached
    <3> QED
      BY <1>1, <3>1, <3>2 DEF DrainResult, TypeOK
  <2> QED
    BY <2>3, <2>4
<1>2. CASE FindNoResult \/ EndTurn \/ UNCHANGED vars
  <2>1. TypeOK'
    BY <1>2 DEF FindNoResult, EndTurn, vars, uiVars, TypeOK
  <2>2. Line' = Line /\ geo_in_flight' = geo_in_flight
    BY <1>2 DEF FindNoResult, EndTurn, vars, uiVars, Line
  <2> QED
    BY <2>1, <2>2 DEF SlotsAreExact
<1>3. ASSUME NEW dst, NEW src, ShowPacket(dst, src)
      PROVE  Slots'
  <2>1. TypeOK' /\ Line' = Line \o Lookups(dst, src)
    BY <1>3, PacketExtendsLine DEF SlotsAreExact
  <2>2. /\ Lookups(dst, src) \in Seq(Ip) /\ Len(Lookups(dst, src)) \in Nat
        /\ geo_in_flight + Len(Lookups(dst, src)) <= MaxInFlight
    BY LookupsFacts DEF SlotsAreExact
  <2>3. Len(Line') = Len(Line) + Len(Lookups(dst, src))
    BY <2>1, <2>2, LineParts, Concat
  <2>4. geo_in_flight' = geo_in_flight + Len(Lookups(dst, src))
    BY <1>3 DEF ShowPacket
  <2> QED
    BY <2>1, <2>2, <2>3, <2>4 DEF SlotsAreExact
<1>4. CASE GeoThread
  BY <1>4, GeoThreadKeepsLine DEF SlotsAreExact, uiVars
<1> QED
  BY <1>1, <1>2, <1>3, <1>4 DEF Next, Turn

LEMMA SlotsInit ==
  ASSUME Init
  PROVE  Slots
<1>1. TypeOK
  <2>1. geo_cache \in [Ip -> Cached]
    BY DEF Init, Cached
  <2>2. req \in Seq(Ip) /\ res \in Seq(Ip \X Answer)
    BY DEF Init
  <2> QED
    BY <2>1, <2>2 DEF Init, TypeOK
<1>2. Len(res) = 0 /\ Len(Asked) = 0 /\ Len(req) = 0
  BY DEF Init, Asked
<1>3. Len(Line) = 0
  BY <1>1, <1>2, LineParts
<1> QED
  BY <1>1, <1>3, GeoAssumption DEF Init, Slots, SlotsAreExact

\* Every variable keeps its type (the counter and the channels included).
THEOREM TypeCorrect == Spec => []TypeOK
<1>1. Slots => TypeOK
  BY DEF Slots
<1> QED
  BY <1>1, SlotsInit, SlotsStep, PTL DEF Spec

\* main.rs:211-225 and 306-321: the counter is the number of lookups
\* outstanding and never exceeds the limit.
THEOREM SlotsAreExactHolds == Spec => []SlotsAreExact
<1>1. Slots => SlotsAreExact
  BY DEF Slots
<1> QED
  BY <1>1, SlotsInit, SlotsStep, PTL DEF Spec

-----------------------------------------------------------------------------
(***************************************************************************)
(* What the cache says of the line.                                        *)
(***************************************************************************)
\* The elements of a sequence of addresses, and what free of repetitions means.
LEMMA Elements ==
  ASSUME NEW s \in Seq(Ip)
  PROVE  /\ Len(s) \in Nat
         /\ \A i \in 1..Len(s) : s[i] \in ToSet(s) /\ s[i] \in Ip
         /\ \A x \in ToSet(s) : \E i \in 1..Len(s) : x = s[i]
         /\ IsInjective(s) <=> \A i, j \in 1..Len(s) : s[i] = s[j] => i = j
<1>1. DOMAIN s = 1..Len(s) /\ Len(s) \in Nat
  OBVIOUS
<1> QED
  BY <1>1 DEF ToSet, IsInjective

\* Taking the first element off keeps a sequence free of repetitions.
LEMMA DropFirst ==
  ASSUME NEW h \in Ip, NEW s \in Seq(Ip), IsInjective(<<h>> \o s)
  PROVE  IsInjective(s) /\ ToSet(s) = ToSet(<<h>> \o s) \ {h}
<1> DEFINE t == <<h>> \o s
<1>1. <<h>> \in Seq(Ip) /\ Len(<<h>>) = 1 /\ <<h>>[1] = h
  OBVIOUS
<1>2. /\ t \in Seq(Ip) /\ Len(t) = 1 + Len(s) /\ Len(s) \in Nat
      /\ \A i \in 1..(1 + Len(s)) : t[i] = IF i <= 1 THEN <<h>>[i] ELSE s[i - 1]
  BY <1>1, Concat
<1> HIDE DEF t
<1>3. t[1] = h
  BY <1>1, <1>2
<1>4. \A i \in 1..Len(s) : t[i + 1] = s[i]
  BY <1>2
<1>5. \A i, j \in 1..Len(t) : t[i] = t[j] => i = j
  BY <1>2, Elements DEF t
<1>6. IsInjective(s)
  <2>1. ASSUME NEW i \in 1..Len(s), NEW j \in 1..Len(s), s[i] = s[j]
        PROVE  i = j
    <3>1. i + 1 \in 1..Len(t) /\ j + 1 \in 1..Len(t)
      BY <1>2
    <3>2. t[i + 1] = t[j + 1]
      BY <1>4, <2>1
    <3> QED
      BY <1>5, <3>1, <3>2
  <2> QED
    BY <2>1, Elements
<1>7. ToSet(s) \subseteq ToSet(t) \ {h}
  <2>1. ASSUME NEW i \in 1..Len(s)
        PROVE  s[i] \in ToSet(t) /\ s[i] # h
    <3>1. i + 1 \in 1..Len(t) /\ i + 1 # 1 /\ 1 \in 1..Len(t)
      BY <1>2
    <3>2. t[i + 1] = s[i]
      BY <1>4
    <3>3. t[i + 1] # t[1]
      BY <1>5, <3>1
    <3>4. t[i + 1] \in ToSet(t)
      BY <1>2, <3>1, Elements
    <3> QED
      BY <1>3, <3>2, <3>3, <3>4
  <2> QED
    BY <2>1, Elements
<1>8. ToSet(t) \ {h} \subseteq ToSet(s)
  <2>1. ASSUME NEW i \in 1..Len(t), t[i] # h
        PROVE  t[i] \in ToSet(s)
    <3>1. i - 1 \in 1..Len(s) /\ t[i] = s[i - 1]
      BY <1>2, <1>3, <2>1
    <3> QED
      BY <3>1, Elements
  <2> QED
    BY <1>2, <2>1, Elements
<1> QED
  BY <1>6, <1>7, <1>8 DEF t

\* Appending new elements does so too.
LEMMA AppendNew ==
  ASSUME NEW s \in Seq(Ip), NEW t \in Seq(Ip),
         IsInjective(s), IsInjective(t), ToSet(s) \cap ToSet(t) = {}
  PROVE  IsInjective(s \o t) /\ ToSet(s \o t) = ToSet(s) \cup ToSet(t)
<1> DEFINE u == s \o t
<1>1. /\ u \in Seq(Ip) /\ Len(u) = Len(s) + Len(t)
      /\ Len(s) \in Nat /\ Len(t) \in Nat
      /\ \A i \in 1..(Len(s) + Len(t)) :
           u[i] = IF i <= Len(s) THEN s[i] ELSE t[i - Len(s)]
  BY Concat
<1> HIDE DEF u
<1>2. \A i \in 1..Len(s) : i \in 1..Len(u) /\ u[i] = s[i]
  BY <1>1
<1>3. \A i \in 1..Len(t) : i + Len(s) \in 1..Len(u) /\ u[i + Len(s)] = t[i]
  BY <1>1, SMTT(30)
<1>4. \A i \in 1..Len(u) :
        \/ i \in 1..Len(s) /\ u[i] = s[i]
        \/ i - Len(s) \in 1..Len(t) /\ u[i] = t[i - Len(s)]
  BY <1>1
<1>5. /\ \A i, j \in 1..Len(s) : s[i] = s[j] => i = j
      /\ \A i, j \in 1..Len(t) : t[i] = t[j] => i = j
  BY Elements
<1>6. \A i \in 1..Len(s), j \in 1..Len(t) : s[i] # t[j]
  BY Elements
<1>7. ASSUME NEW i \in 1..Len(u), NEW j \in 1..Len(u), u[i] = u[j]
      PROVE  i = j
  <2>1. CASE i \in 1..Len(s) /\ u[i] = s[i] /\ j \in 1..Len(s) /\ u[j] = s[j]
    BY <1>5, <1>7, <2>1
  <2>2. CASE /\ i - Len(s) \in 1..Len(t) /\ u[i] = t[i - Len(s)]
             /\ j - Len(s) \in 1..Len(t) /\ u[j] = t[j - Len(s)]
    <3>1. i - Len(s) = j - Len(s)
      BY <1>5, <1>7, <2>2
    <3> QED
      BY <1>1, <3>1
  <2> QED
    BY <1>4, <1>6, <1>7, <2>1, <2>2
<1>8. IsInjective(u)
  BY <1>1, <1>7, Elements
<1>9. ToSet(u) \subseteq ToSet(s) \cup ToSet(t)
  <2>1. \A i \in 1..Len(u) : u[i] \in ToSet(s) \cup ToSet(t)
    BY <1>4, Elements
  <2> QED
    BY <1>1, <2>1, Elements
<1>10. ToSet(s) \subseteq ToSet(u)
  <2>1. \A i \in 1..Len(s) : s[i] \in ToSet(u)
    BY <1>1, <1>2, Elements
  <2> QED
    BY <2>1, Elements
<1>11. ToSet(t) \subseteq ToSet(u)
  <2>1. \A i \in 1..Len(t) : t[i] \in ToSet(u)
    BY <1>1, <1>3, Elements
  <2> QED
    BY <2>1, Elements
<1> QED
  BY <1>8, <1>9, <1>10, <1>11 DEF u

LineInv == Slots /\ PendingIsAsked

LEMMA LineInit ==
  ASSUME Init
  PROVE  LineInv
<1>1. Slots
  BY SlotsInit
<1>2. Len(Line) = 0 /\ Line \in Seq(Ip)
  BY <1>1, LineParts, GeoAssumption DEF Slots, SlotsAreExact, Init
<1>3. ToSet(Line) = {} /\ IsInjective(Line)
  BY <1>2 DEF ToSet, IsInjective
<1> QED
  BY <1>1, <1>3 DEF LineInv, PendingIsAsked, Init

\* One step keeps the invariant and every answer.
LEMMA LineStep ==
  ASSUME LineInv, [Next]_vars
  PROVE  /\ PendingIsAsked'
         /\ \A ip \in Ip : geo_cache[ip] \in Answer =>
              geo_cache'[ip] = geo_cache[ip]
<1> USE DEF LineInv, Slots
<1>1. CASE DrainResult
  <2> DEFINE h == Head(res)[1]
  <2>1. h \in Ip /\ Line' \in Seq(Ip) /\ Line = <<h>> \o Line'
    BY <1>1, DrainTakesFirst
  <2>2. Head(res)[2] \in Answer
    BY <1>1 DEF DrainResult, TypeOK
  <2>3. geo_cache' = [geo_cache EXCEPT ![h] = Head(res)[2]]
    BY <1>1 DEF DrainResult
  <2> HIDE DEF h
  <2>4. IsInjective(Line') /\ ToSet(Line') = ToSet(Line) \ {h}
    BY <2>1, DropFirst DEF PendingIsAsked
  <2>5. h \in ToSet(Line)
    <3>1. <<h>> \in Seq(Ip) /\ Len(<<h>>) = 1 /\ <<h>>[1] = h
      BY <2>1
    <3>2. Line[1] = h /\ Len(Line) = 1 + Len(Line') /\ Len(Line') \in Nat
      BY <2>1, <3>1, Concat
    <3>3. Line \in Seq(Ip) /\ 1 \in 1..Len(Line)
      BY <3>2, LineParts
    <3> QED
      BY <3>2, <3>3, Elements
  <2>6. geo_cache[h] = "pending"
    BY <2>5 DEF PendingIsAsked
  <2>7. \A ip \in Ip : geo_cache'[ip] = IF ip = h THEN Head(res)[2]
                                                   ELSE geo_cache[ip]
    BY <2>3 DEF TypeOK
  <2>8. PendingIsAsked'
    BY <2>2, <2>4, <2>7 DEF PendingIsAsked, Answer
  <2> QED
    BY <2>6, <2>7, <2>8 DEF Answer
<1>2. CASE FindNoResult \/ EndTurn \/ UNCHANGED vars
  <2>1. geo_cache' = geo_cache /\ Line' = Line
    BY <1>2 DEF FindNoResult, EndTurn, vars, uiVars, Line
  <2> QED
    BY <2>1 DEF PendingIsAsked
<1>3. ASSUME NEW dst, NEW src, ShowPacket(dst, src)
      PROVE  /\ PendingIsAsked'
             /\ \A ip \in Ip : geo_cache[ip] \in Answer =>
                  geo_cache'[ip] = geo_cache[ip]
  <2> DEFINE ips == Lookups(dst, src)
  <2>1. Line' = Line \o ips
    BY <1>3, PacketExtendsLine DEF SlotsAreExact
  <2>2. /\ ips \in Seq(Ip) /\ IsInjective(ips)
        /\ \A i \in 1..Len(ips) : geo_cache[ips[i]] = "none"
    BY LookupsFacts DEF SlotsAreExact
  <2>3. geo_cache' = [ip \in Ip |-> IF ip \in ToSet(ips) THEN "pending"
                                                        ELSE geo_cache[ip]]
    BY <1>3 DEF ShowPacket
  <2> HIDE DEF ips
  <2>4. \A ip \in ToSet(ips) : ip \in Ip /\ geo_cache[ip] = "none"
    BY <2>2 DEF ToSet
  <2>5. ToSet(Line) \cap ToSet(ips) = {}
    BY <2>4 DEF PendingIsAsked
  <2>6. /\ IsInjective(Line')
        /\ ToSet(Line') = ToSet(Line) \cup ToSet(ips)
    BY <2>1, <2>2, <2>5, LineParts, AppendNew DEF PendingIsAsked
  <2>7. \A ip \in Ip : geo_cache'[ip] = IF ip \in ToSet(ips) THEN "pending"
                                                            ELSE geo_cache[ip]
    BY <2>3
  <2>8. PendingIsAsked'
    BY <2>4, <2>6, <2>7 DEF PendingIsAsked
  <2> QED
    BY <2>4, <2>7, <2>8 DEF Answer
<1>4. CASE GeoThread
  <2>1. Line' = Line /\ geo_cache' = geo_cache
    BY <1>4, GeoThreadKeepsLine DEF uiVars
  <2> QED
    BY <2>1 DEF PendingIsAsked
<1> QED
  BY <1>1, <1>2, <1>3, <1>4 DEF Next, Turn

\* main.rs:308-311: "Looking up..." stands for one lookup under way, never
\* for none and never for two.
THEOREM PendingIsAskedHolds == Spec => []PendingIsAsked
<1>1. LineInv /\ [Next]_vars => LineInv'
  BY LineStep, SlotsStep DEF LineInv
<1>2. LineInv => PendingIsAsked
  BY DEF LineInv
<1> QED
  BY <1>1, <1>2, LineInit, PTL DEF Spec

\* main.rs:211-225: an answer is final, a failed lookup's included.
THEOREM AnswersStayHold == Spec => AnswersStay
<1>1. LineInv /\ [Next]_vars => LineInv'
  BY LineStep, SlotsStep DEF LineInv
<1> DEFINE Keeps == \A ip \in Ip : geo_cache[ip] \in Answer =>
                      geo_cache'[ip] = geo_cache[ip]
<1>2. LineInv /\ [Next]_vars => [Keeps]_vars
  BY LineStep
<1> HIDE DEF Keeps
<1>3. Init => LineInv
  BY LineInit
<1>4. Spec => [][Keeps]_vars
  BY <1>1, <1>2, <1>3, PTL DEF Spec
<1> QED
  BY <1>4 DEF AnswersStay, Keeps

-----------------------------------------------------------------------------
(***************************************************************************)
(* The loop around it.                                                     *)
(***************************************************************************)
\* What the places in the loop say of the two ends of the intake.
Intake ==
  /\ stage = "ingest" => ~limit_reached /\ channel_alive
  /\ capture = "stopped" => in_hand = NoPacket
  /\ EndIsLast
  /\ LimitIsExact

UiInv == UiTypeOK /\ LineInv /\ Intake

\* A situation's parts have their types.
LEMMA NetworkParts ==
  ASSUME network \in Network
  PROVE  /\ network.packets \subseteq Packet
         /\ network.arp \subseteq Ip \cup {Local}
         /\ network.programs \subseteq Program
         /\ network.limits \subseteq Nat \cup {NoLimit}
         /\ network.queue \in Nat \ {0}
BY UiAssumption DEF Situation

\* The packets of the channel have addresses GeoLookup knows.
LEMMA PacketParts ==
  ASSUME NEW pkt \in Packet
  PROVE  /\ pkt.dst \in Ip \cup {Local} /\ pkt.src \in Ip \cup {Local}
         /\ pkt.by \in Program \cup {NoProgram}
BY DEF Packet

-----------------------------------------------------------------------------
(***************************************************************************)
(* Every step is a step of GeoLookup, or none.                             *)
(***************************************************************************)
LEMMA GeoStep ==
  ASSUME UiTypeOK, [UiNext]_allVars
  PROVE  [Next]_vars
<1>1. ASSUME Ingest PROVE [Next]_vars
  <2>1. Head(packets) \in Packet
    BY <1>1 DEF Ingest, UiTypeOK
  <2>2. CASE paused
    BY <1>1, <2>2 DEF Ingest
  <2>3. CASE ~paused
    <3>1. ShowPacket(Head(packets).dst, Head(packets).src)
      BY <1>1, <2>3 DEF Ingest, Show
    <3> QED
      BY <2>1, <3>1, PacketParts DEF Next
  <2> QED
    BY <2>2, <2>3
<1>2. ASSUME UiTurn PROVE [Next]_vars
  <2>1. CASE DrainGeo
    BY <2>1 DEF DrainGeo, Next, Turn
  <2>2. CASE HearNext
    BY <2>2 DEF HearNext
  <2>3. CASE HeardAll
    BY <2>3 DEF HeardAll
  <2>4. CASE Ingest
    BY <2>4, <1>1
  <2>5. CASE StopIngest
    BY <2>5 DEF StopIngest
  <2>6. CASE Keys
    BY <2>6 DEF Keys, Next, Turn
  <2> QED
    BY <1>2, <2>1, <2>2, <2>3, <2>4, <2>5, <2>6 DEF UiTurn
<1>3. ASSUME Capture PROVE [Next]_vars
  BY <1>3 DEF Capture, HearArp, Parse, SendPacket, StopCapture
<1>4. ASSUME Processes PROVE [Next]_vars
  BY <1>4 DEF Processes, UsePort, ReadTable, ResolveTable
<1> QED
  BY <1>2, <1>3, <1>4 DEF UiNext, Next, allVars

-----------------------------------------------------------------------------
(***************************************************************************)
(* The invariant.                                                          *)
(***************************************************************************)
LEMMA UiInitially ==
  ASSUME UiInit
  PROVE  UiInv
<1>1. LineInv
  BY LineInit DEF UiInit
<1>2. TypeOK
  BY <1>1 DEF LineInv, Slots
<1>3. heard \in Seq(Ip \cup {Local}) /\ packets \in Seq(Packet)
      /\ Len(heard) = 0 /\ Len(packets) = 0
  BY DEF UiInit
<1>4. limit \in Nat \cup {NoLimit} /\ network.queue \in Nat
  BY NetworkParts DEF UiInit
<1>5. UiTypeOK
  <2>1. taken \in 0..MaxPerTurn /\ count \in Nat /\ passive \in Named
    BY UiAssumption DEF UiInit, Named
  <2>2. heard \in Seq(Ip \cup {Local}) /\ Len(heard) <= network.queue
        /\ packets \in Seq(Packet) /\ Len(packets) <= network.queue
    BY <1>3, <1>4
  <2>3. {owner, table, process_cache} \subseteq Program \cup {NoProgram}
    BY DEF UiInit
  <2> QED
    BY <1>2, <2>1, <2>2, <2>3 DEF UiInit, UiTypeOK
<1>6. Intake
  <2>1. LimitIsExact
    <3>1. CASE limit = NoLimit
      BY <3>1 DEF LimitIsExact
    <3>2. CASE limit \in Nat
      BY <3>2 DEF UiInit, LimitIsExact
    <3> QED
      BY <1>4, <3>1, <3>2
  <2> QED
    BY <2>1 DEF UiInit, Intake, EndIsLast
<1> QED
  BY <1>1, <1>5, <1>6 DEF UiInv

\* The passive channel holds addresses, up to its bound.
LEMMA TellBounds ==
  ASSUME UiTypeOK, NEW ip \in Ip \cup {Local}, Tell(ip)
  PROVE  heard' \in Seq(Ip \cup {Local}) /\ Len(heard') <= network.queue
<1>1. network.queue \in Nat /\ heard \in Seq(Ip \cup {Local})
      /\ Len(heard) <= network.queue
  BY NetworkParts DEF UiTypeOK
<1>2. CASE Len(heard) < network.queue /\ heard' = Append(heard, ip)
  BY <1>1, <1>2
<1>3. CASE UNCHANGED heard
  BY <1>1, <1>3
<1> QED
  BY <1>2, <1>3 DEF Tell

\* The capture thread's steps.
LEMMA CaptureStep ==
  ASSUME UiInv, Capture
  PROVE  UiTypeOK' /\ Intake'
<1> USE DEF UiInv
<1>1. TypeOK'
  BY DEF UiTypeOK, TypeOK, Capture, HearArp, Parse, SendPacket, StopCapture, vars,
         uiVars
<1>2. /\ network.queue \in Nat /\ network.arp \subseteq Ip \cup {Local}
      /\ network.packets \subseteq Packet
  BY NetworkParts DEF UiTypeOK
<1>3. ASSUME NEW ip \in network.arp, HearArp(ip)
      PROVE  UiTypeOK' /\ Intake'
  <2>1. heard' \in Seq(Ip \cup {Local}) /\ Len(heard') <= network.queue
    BY <1>2, <1>3, TellBounds DEF HearArp
  <2>2. UiTypeOK'
    BY <1>1, <1>3, <2>1
    DEF UiTypeOK, HearArp, vars, uiVars, loopVars, processVars
  <2>3. Intake'
    BY <1>3 DEF Intake, HearArp, EndIsLast, LimitIsExact, loopVars
  <2> QED
    BY <2>2, <2>3
<1>4. ASSUME NEW pkt \in network.packets, Parse(pkt)
      PROVE  UiTypeOK' /\ Intake'
  <2>1. pkt \in Packet /\ pkt.src \in Ip \cup {Local}
    BY <1>2, PacketParts
  <2>2. heard' \in Seq(Ip \cup {Local}) /\ Len(heard') <= network.queue
    BY <1>4, <2>1, TellBounds DEF Parse
  <2>3. UiTypeOK'
    BY <1>1, <1>4, <2>1, <2>2
    DEF UiTypeOK, Parse, vars, uiVars, loopVars, processVars
  <2>4. Intake'
    BY <1>4 DEF Intake, Parse, EndIsLast, LimitIsExact, loopVars
  <2> QED
    BY <2>3, <2>4
<1>5. ASSUME SendPacket
      PROVE  UiTypeOK' /\ Intake'
  <2>1. in_hand \in Packet /\ capture = "running"
    BY <1>5 DEF SendPacket, UiTypeOK, Intake
  <2>2. packets' \in Seq(Packet) /\ Len(packets') <= network.queue
    BY <1>2, <1>5, <2>1 DEF UiTypeOK, SendPacket
  <2>3. UiTypeOK'
    BY <1>1, <1>5, <2>2
    DEF UiTypeOK, SendPacket, vars, uiVars, loopVars, processVars
  <2>4. Intake'
    BY <1>5, <2>1 DEF Intake, SendPacket, EndIsLast, LimitIsExact, loopVars
  <2> QED
    BY <2>3, <2>4
<1>6. ASSUME StopCapture
      PROVE  UiTypeOK' /\ Intake'
  <2>1. UiTypeOK'
    BY <1>1, <1>6 DEF UiTypeOK, StopCapture, vars, uiVars, loopVars, processVars
  <2>2. Intake'
    BY <1>6 DEF Intake, StopCapture, EndIsLast, LimitIsExact, loopVars, UiTypeOK
  <2> QED
    BY <2>1, <2>2
<1> QED
  BY <1>3, <1>4, <1>5, <1>6 DEF Capture

\* The process cache thread's and the system's.
LEMMA ProcessStep ==
  ASSUME UiInv, Processes
  PROVE  UiTypeOK' /\ Intake'
<1> USE DEF UiInv
<1>1. TypeOK' /\ UNCHANGED <<vars, network, limit, loopVars, captureVars>>
  BY DEF UiTypeOK, TypeOK, Processes, UsePort, ReadTable, ResolveTable, vars, uiVars
<1>2. owner' \in Program \cup {NoProgram} /\ table' \in Program \cup {NoProgram}
      /\ process_cache' \in Program \cup {NoProgram}
  BY NetworkParts DEF UiTypeOK, Processes, UsePort, ReadTable, ResolveTable
<1>3. UiTypeOK'
  BY <1>1, <1>2 DEF UiTypeOK, vars, uiVars, loopVars, captureVars
<1>4. Intake'
  BY <1>1 DEF Intake, EndIsLast, LimitIsExact, loopVars, captureVars
<1> QED
  BY <1>3, <1>4

\* The loop's: one step per stretch of a turn.
LEMMA TurnStep ==
  ASSUME UiInv, UiTurn, TypeOK'
  PROVE  UiTypeOK' /\ Intake'
<1> USE DEF UiInv
<1>1. ASSUME DrainGeo PROVE UiTypeOK' /\ Intake'
  <2>1. UNCHANGED <<network, limit, loopVars, captureVars, processVars>>
    BY <1>1 DEF DrainGeo
  <2>2. ui = "drain"
    BY <1>1 DEF DrainGeo, DrainResult, FindNoResult
  <2>3. UiTypeOK'
    BY <2>1, <2>2 DEF UiTypeOK, loopVars, captureVars, processVars
  <2>4. Intake'
    BY <2>1 DEF Intake, EndIsLast, LimitIsExact, loopVars, captureVars
  <2> QED
    BY <2>3, <2>4
<1>2. ASSUME HearNext PROVE UiTypeOK' /\ Intake'
  <2>1. heard' \in Seq(Ip \cup {Local}) /\ Len(heard') <= network.queue
    BY <1>2, NetworkParts DEF HearNext, UiTypeOK
  <2>2. passive' \in Named
    BY <1>2 DEF HearNext, UiTypeOK, Named
  <2>3. UiTypeOK'
    BY <1>2, <2>1, <2>2 DEF HearNext, UiTypeOK, vars, uiVars, processVars
  <2>4. Intake'
    BY <1>2 DEF HearNext, Intake, EndIsLast, LimitIsExact
  <2> QED
    BY <2>3, <2>4
<1>3. ASSUME HeardAll PROVE UiTypeOK' /\ Intake'
  <2>1. stage' \in {"ingest", "keys"} /\ taken' \in 0..MaxPerTurn /\ ui' # "drain"
    BY <1>3, UiAssumption DEF HeardAll, vars, uiVars
  <2>2. UiTypeOK'
    BY <1>3, <2>1 DEF HeardAll, UiTypeOK, vars, uiVars, captureVars, processVars
  <2>3. Intake'
    BY <1>3 DEF HeardAll, Intake, EndIsLast, LimitIsExact, captureVars
  <2> QED
    BY <2>2, <2>3
<1>4. ASSUME Ingest PROVE UiTypeOK' /\ Intake'
  <2>1. /\ packets' \in Seq(Packet) /\ Len(packets') <= network.queue
        /\ Head(packets) \in Packet
    BY <1>4, NetworkParts DEF Ingest, UiTypeOK
  <2>2. passive' \in Named /\ shown' \in Program \cup {"none", "unknown"}
    BY <1>4 DEF Ingest, Show, Attributed, UiTypeOK, Named
  <2>3. count' \in Nat /\ limit_reached' \in BOOLEAN /\ taken' \in 0..MaxPerTurn
    BY <1>4, UiAssumption DEF Ingest, UiTypeOK
  <2>4. ui' = "packets" /\ stage' \in {"ingest", "keys"}
    <3>1. ui = "packets"
      BY <1>4 DEF Ingest, UiTypeOK, TypeOK
    <3> QED
      BY <1>4, <3>1 DEF Ingest, Show, ShowPacket, vars, uiVars
  <2>5. UiTypeOK'
    BY <1>4, <2>1, <2>2, <2>3, <2>4 DEF Ingest, UiTypeOK, processVars
  <2>6. ~limit_reached /\ channel_alive /\ channel_alive'
    BY <1>4 DEF Ingest, Intake
  <2>7. LimitIsExact'
    <3>1. CASE limit = NoLimit
      BY <1>4, <3>1 DEF Ingest, LimitIsExact
    <3>2. ASSUME limit # NoLimit PROVE LimitIsExact'
      <4>1. limit \in Nat /\ limit' = limit
        BY <1>4, <3>2, NetworkParts DEF Ingest, UiTypeOK
      <4>2. /\ count' = count + 1 /\ count \in Nat
            /\ limit_reached' <=> count + 1 >= limit
        BY <1>4, <3>2 DEF Ingest, UiTypeOK
      <4>3. ~(count > 0 /\ count >= limit)
        BY <2>6, <3>2 DEF Intake, LimitIsExact
      <4> QED
        BY <3>2, <4>1, <4>2, <4>3 DEF LimitIsExact
    <3> QED
      BY <3>1, <3>2
  <2>8. Intake'
    BY <1>4, <2>6, <2>7 DEF Ingest, Intake, EndIsLast
  <2> QED
    BY <2>5, <2>8
<1>5. ASSUME StopIngest PROVE UiTypeOK' /\ Intake'
  <2>1. UiTypeOK'
    BY <1>5 DEF StopIngest, UiTypeOK, vars, uiVars, captureVars, processVars
  <2>2. EndIsLast'
    BY <1>5 DEF StopIngest, EndIsLast, captureVars, UiTypeOK
  <2>3. Intake'
    BY <1>5, <2>2 DEF StopIngest, Intake, LimitIsExact, captureVars
  <2> QED
    BY <2>1, <2>3
<1>6. ASSUME Keys PROVE UiTypeOK' /\ Intake'
  <2>1. ui' = "drain" /\ stage' = "hear"
    BY <1>6 DEF Keys, EndTurn
  <2>2. UiTypeOK'
    BY <1>6, <2>1 DEF Keys, UiTypeOK, captureVars, processVars
  <2>3. Intake'
    BY <1>6 DEF Keys, Intake, EndIsLast, LimitIsExact, captureVars
  <2> QED
    BY <2>2, <2>3
<1> QED
  BY <1>1, <1>2, <1>3, <1>4, <1>5, <1>6 DEF UiTurn

LEMMA UiStep ==
  ASSUME UiInv, [UiNext]_allVars
  PROVE  UiInv'
<1>1. [Next]_vars
  BY GeoStep DEF UiInv
<1>2. LineInv'
  BY <1>1, LineStep, SlotsStep DEF UiInv, LineInv
<1>3. TypeOK'
  BY <1>2 DEF LineInv, Slots
<1>4. ASSUME GeoThread /\ UNCHANGED <<network, limit, loopVars, captureVars, processVars>>
      PROVE  UiTypeOK' /\ Intake'
  <2>1. ui' = ui
    BY <1>4 DEF GeoThread, TakeRequest, Respond, uiVars
  <2>2. UiTypeOK'
    BY <1>3, <1>4, <2>1 DEF UiInv, UiTypeOK, loopVars, captureVars, processVars
  <2>3. Intake'
    BY <1>4 DEF UiInv, Intake, EndIsLast, LimitIsExact, loopVars, captureVars
  <2> QED
    BY <2>2, <2>3
<1>5. ASSUME UNCHANGED allVars
      PROVE  UiTypeOK' /\ Intake'
  <2>1. UiTypeOK'
    BY <1>3, <1>5
    DEF UiInv, UiTypeOK, allVars, vars, uiVars, loopVars, captureVars, processVars
  <2>2. Intake'
    BY <1>5 DEF UiInv, Intake, EndIsLast, LimitIsExact, allVars, loopVars, captureVars
  <2> QED
    BY <2>1, <2>2
<1>6. UiTypeOK' /\ Intake'
  BY <1>3, <1>4, <1>5, CaptureStep, ProcessStep, TurnStep DEF UiNext
<1> QED
  BY <1>2, <1>6 DEF UiInv

-----------------------------------------------------------------------------
(***************************************************************************)
(* What follows.                                                           *)
(***************************************************************************)
\* Every variable of the loop and of the threads around it keeps its type, and
\* the channels their bounds.
THEOREM UiTypeCorrect == UiSpec => []UiTypeOK
<1>1. UiInv => UiTypeOK
  BY DEF UiInv
<1> QED
  BY <1>1, UiInitially, UiStep, PTL DEF UiSpec

\* main.rs:309: the limit on lookups holds whatever the packets, in the loop
\* that takes them from the capture thread's channel.
THEOREM UiSlotsAreExact == UiSpec => []SlotsAreExact
<1>1. UiInv => SlotsAreExact
  BY DEF UiInv, LineInv, Slots
<1> QED
  BY <1>1, UiInitially, UiStep, PTL DEF UiSpec

\* main.rs:308-320: one lookup for every placeholder, there too.
THEOREM UiPendingIsAsked == UiSpec => []PendingIsAsked
<1>1. UiInv => PendingIsAsked
  BY DEF UiInv, LineInv
<1> QED
  BY <1>1, UiInitially, UiStep, PTL DEF UiSpec

\* main.rs:387-402: exactly as many packets are taken as --limit says.
THEOREM LimitIsExactHolds == UiSpec => []LimitIsExact
<1>1. UiInv => LimitIsExact
  BY DEF UiInv, Intake
<1> QED
  BY <1>1, UiInitially, UiStep, PTL DEF UiSpec

\* main.rs:391-402: the channel is found without a sender only when the capture
\* thread is gone and every packet it had sent was taken.
THEOREM EndIsLastHolds == UiSpec => []EndIsLast
<1>1. UiInv => EndIsLast
  BY DEF UiInv, Intake
<1> QED
  BY <1>1, UiInitially, UiStep, PTL DEF UiSpec

\* main.rs:245-268 and 376-383: what is heard of a device does not take the name
\* away that its DHCP request gave it.
THEOREM NamesStay == UiSpec => NameStays
<1> DEFINE Keeps == passive = "named" => passive' = "named"
<1>1. ASSUME [UiNext]_allVars PROVE Keeps
  <2>1. CASE UiTurn
    BY <2>1 DEF UiTurn, DrainGeo, HearNext, HeardAll, Ingest, Show, StopIngest, Keys,
                loopVars
  <2>2. CASE Capture
    BY <2>2 DEF Capture, HearArp, Parse, SendPacket, StopCapture, loopVars
  <2>3. CASE Processes
    BY <2>3 DEF Processes, UsePort, ReadTable, ResolveTable, loopVars
  <2>4. CASE UNCHANGED loopVars
    BY <2>4 DEF loopVars
  <2> QED
    BY <1>1, <2>1, <2>2, <2>3, <2>4 DEF UiNext, allVars
<1>2. [UiNext]_allVars => [Keeps]_allVars
  BY <1>1
<1> HIDE DEF Keeps
<1>3. UiSpec => [][Keeps]_allVars
  BY <1>2, PTL DEF UiSpec
<1> QED
  BY <1>3 DEF NameStays, Keeps
=============================================================================
