-------------------------- MODULE ScanProbesProofs --------------------------
(***************************************************************************)
(* Theorems about ScanProbes, for every set of devices, every number of    *)
(* workers and every window and latency.                                   *)
(***************************************************************************)
EXTENDS ScanProbes, DeviceMapProofs, SequenceTheorems, FiniteSetTheorems

-----------------------------------------------------------------------------
(***************************************************************************)
(* Type correctness.                                                       *)
(***************************************************************************)
\* An order of the addresses is a sequence that has each of them once.
LEMMA OrderIsSeq ==
  ASSUME NEW S \in SUBSET V4, NEW s \in SetToSeqs(S)
  PROVE  /\ s \in Seq(V4)
         /\ S = {s[i] : i \in DOMAIN s}
         /\ \A i, j \in DOMAIN s : s[i] = s[j] => i = j
<1> DEFINE n == Cardinality(S)
<1>1. IsFiniteSet(S)
  BY ProbesAssumption, FS_Subset DEF V4
<1>2. n \in Nat
  BY <1>1, FS_CardinalityType
<1>3. s \in [1..n -> S] /\ \A i, j \in 1..n : i # j => s[i] # s[j]
  BY DEF SetToSeqs
<1>4. s \in Seq(V4)
  BY <1>2, <1>3, SeqDef
<1>5. s \in Injection(1..n, S)
  BY <1>3 DEF Injection, IsInjective
<1>6. Cardinality(1..n) = n
  BY <1>2, FS_Interval
<1>7. s \in Surjection(1..n, S)
  BY <1>1, <1>5, <1>6, FS_Injection
<1>8. S = {s[i] : i \in DOMAIN s}
  BY <1>3, <1>7 DEF Surjection
<1> QED
  BY <1>3, <1>4, <1>8

\* The workers begin with the addresses of a set.
LEMMA PoolBegins ==
  ASSUME NEW S \in SUBSET V4, StartPool(S)
  PROVE  /\ targets' \subseteq V4 /\ ips' \in Seq(V4)
         /\ holds' \in [Worker -> V4 \cup {Free, Gone}]
         /\ result_tx' \in Seq(V4 \X BOOLEAN)
BY OrderIsSeq, EmptySeq DEF StartPool

\* What a drained lookup leaves is a map.
LEMMA DrainedMaps ==
  ASSUME devices \in DeviceMaps, NEW d \in Device
  PROVE  Drained(d) \in DeviceMaps
<1> DEFINE counterparts == {f \in Fe80 : mac[f] = d}
<1>1. NameUnresolved(devices, {d} \cup counterparts) \in DeviceMaps
  BY NamingMaps
<1>2. Looked(devices, {d}, IF Got(d) THEN {d} ELSE {}) \in DeviceMaps
  BY NamingMaps
<1> QED
  BY <1>1, <1>2 DEF Drained

LEMMA ProbesTypeInit == Init => TypeOK
<1> SUFFICES ASSUME Init PROVE TypeOK
  OBVIOUS
<1>1. new_map \in DeviceMaps
  BY FreshMaps, OverlayMaps DEF Init, Name
<1>2. devices \in DeviceMaps /\ before \in DeviceMaps
  BY FreshMaps DEF Init, NoLookups
<1>3. ips \in Seq(V4) /\ result_tx \in Seq(V4 \X BOOLEAN)
  BY EmptySeq DEF Init
<1>4. clock \in 0..Window /\ asked \in [V4 -> 0..NotYet]
  BY ProbesAssumption DEF Init, NotYet
<1>5. /\ mac \in [Fe80 -> V4 \cup {Absent}]
      /\ snapshot \subseteq Resolvable /\ drained \subseteq snapshot
      /\ answer \in [Device -> {"none", "waits", "name"}]
  BY DEF Init, NoLookups
<1> QED
  BY <1>1, <1>2, <1>3, <1>4, <1>5 DEF Init, TypeOK

\* The sweep ends, with the addresses heard in the table.
LEMMA SweepEndTypes ==
  ASSUME TypeOK, NEW heard \in SUBSET V4, EndSweep(heard)
  PROVE  TypeOK'
<1>1. new_map' \in DeviceMaps
  BY FreshMaps, OverlayMaps DEF EndSweep, TypeOK, Name
<1>2. PICK S \in SUBSET V4 : StartPool(S)
  BY DEF EndSweep
<1>3. /\ targets' \subseteq V4 /\ ips' \in Seq(V4)
      /\ holds' \in [Worker -> V4 \cup {Free, Gone}]
      /\ result_tx' \in Seq(V4 \X BOOLEAN)
  BY <1>2, PoolBegins
<1>4. clock' \in 0..Window /\ asked' \in [V4 -> 0..NotYet]
  BY ProbesAssumption DEF EndSweep, NotYet
<1> QED
  BY <1>1, <1>3, <1>4 DEF EndSweep, TypeOK, lookupVars

LEMMA SweepTypes == TypeOK /\ Sweep => TypeOK'
<1> SUFFICES ASSUME TypeOK, Sweep PROVE TypeOK'
  OBVIOUS
<1>1. CASE Tick
  BY <1>1, ProbesAssumption DEF Tick, TypeOK, poolVars, lookupVars
<1>2. ASSUME NEW d \in V4, Ask(d) PROVE TypeOK'
  <2>1. clock \in 0..NotYet
    BY ProbesAssumption DEF TypeOK, NotYet
  <2>2. asked' \in [V4 -> 0..NotYet]
    BY <1>2, <2>1 DEF Ask, TypeOK
  <2> QED
    BY <1>2, <2>2 DEF Ask, TypeOK, poolVars, lookupVars
<1>3. ASSUME NEW d \in V4, Reply(d) PROVE TypeOK'
  BY <1>3 DEF Reply, TypeOK, poolVars, lookupVars
<1>4. CASE StopListening
  BY <1>4 DEF StopListening, TypeOK, poolVars, lookupVars
<1>5. CASE JoinReceiver
  BY <1>5, SweepEndTypes DEF JoinReceiver, TypeOK
<1>6. CASE SkipSweep
  BY <1>6, SweepEndTypes DEF SkipSweep
<1> QED
  BY <1>1, <1>2, <1>3, <1>4, <1>5, <1>6 DEF Sweep

LEMMA PoolTypes == TypeOK /\ Pool => TypeOK'
<1> SUFFICES ASSUME TypeOK, Pool PROVE TypeOK'
  OBVIOUS
<1>1. ASSUME NEW w \in Worker, Pop(w) PROVE TypeOK'
  <2>1. Head(ips) \in V4 /\ Tail(ips) \in Seq(V4)
    BY <1>1, HeadTailProperties DEF Pop, TypeOK
  <2> QED
    BY <1>1, <2>1 DEF Pop, TypeOK, sweepVars, lookupVars
<1>2. ASSUME NEW w \in Worker, Send(w) PROVE TypeOK'
  <2>1. result_tx' \in Seq(V4 \X BOOLEAN)
    BY <1>2, AppendProperties DEF Send, TypeOK
  <2> QED
    BY <1>2, <2>1 DEF Send, TypeOK, sweepVars, lookupVars
<1>3. ASSUME NEW w \in Worker, Leave(w) PROVE TypeOK'
  BY <1>3 DEF Leave, TypeOK, sweepVars, lookupVars
<1>4. CASE EndScope
  BY <1>4 DEF EndScope, Working, TypeOK, sweepVars, poolVars, lookupVars
<1>5. CASE TakeResult
  <2>1. Tail(result_tx) \in Seq(V4 \X BOOLEAN)
    BY <1>5, HeadTailProperties DEF TakeResult, TypeOK
  <2>2. new_map' \in DeviceMaps
    BY <1>5, NamingMaps DEF TakeResult, TypeOK
  <2> QED
    BY <1>5, <2>1, <2>2 DEF TakeResult, TypeOK, sweepVars, lookupVars
<1>6. CASE StartProbes
  <2>1. new_map' \in DeviceMaps
    BY <1>6, FreshMaps, OverlayMaps DEF StartProbes, TypeOK, Name
  <2>2. PICK S \in SUBSET V4 : StartPool(S)
    BY <1>6 DEF StartProbes
  <2>3. /\ targets' \subseteq V4 /\ ips' \in Seq(V4)
        /\ holds' \in [Worker -> V4 \cup {Free, Gone}]
        /\ result_tx' \in Seq(V4 \X BOOLEAN)
    BY <2>2, PoolBegins
  <2> QED
    BY <1>6, <2>1, <2>3 DEF StartProbes, TypeOK, sweepVars, lookupVars
<1>7. CASE StartLookups
  <2>1. PICK cache \in [Device -> {Absent, Seen("named"), Seen("dash")}] :
          devices' = MergeScan(cache, new_map)
    BY <1>7 DEF StartLookups
  <2>2. Seen("named") \in Entry /\ Seen("dash") \in Entry
    BY DEF Seen, Entry, Name
  <2>3. cache \in DeviceMaps
    BY <2>2 DEF DeviceMaps
  <2>4. devices' \in DeviceMaps /\ before' \in DeviceMaps /\ new_map' \in DeviceMaps
    BY <1>7, <2>1, <2>3, MergeMaps, FreshMaps DEF StartLookups, TypeOK
  <2> QED
    BY <1>7, <2>4 DEF StartLookups, TypeOK, sweepVars
<1> QED
  BY <1>1, <1>2, <1>3, <1>4, <1>5, <1>6, <1>7 DEF Pool

LEMMA LookupTypes == TypeOK /\ Lookups => TypeOK'
<1> SUFFICES ASSUME TypeOK, Lookups PROVE TypeOK'
  OBVIOUS
<1>1. ASSUME NEW d \in Device, Answer(d) PROVE TypeOK'
  BY <1>1 DEF Answer, TypeOK, sweepVars, poolVars
<1>2. ASSUME NEW d \in Device, Drain(d) PROVE TypeOK'
  <2>1. devices' \in DeviceMaps
    BY <1>2, DrainedMaps DEF Drain, TypeOK
  <2> QED
    BY <1>2, <2>1 DEF Drain, TypeOK, sweepVars, poolVars
<1>3. CASE DrainedAll
  BY <1>3 DEF DrainedAll, TypeOK, sweepVars, poolVars, lookupVars
<1> QED
  BY <1>1, <1>2, <1>3 DEF Lookups

LEMMA ProbesTypeStep == TypeOK /\ [Next]_vars => TypeOK'
<1> SUFFICES ASSUME TypeOK, [Next]_vars PROVE TypeOK'
  OBVIOUS
<1>1. CASE Next
  BY <1>1, SweepTypes, PoolTypes, LookupTypes DEF Next
<1>2. CASE UNCHANGED vars
  BY <1>2 DEF TypeOK, vars, sweepVars, poolVars, lookupVars
<1> QED
  BY <1>1, <1>2

\* The variables of a scan have their types: the queue, the channel and the
\* maps hold addresses of the network only.
THEOREM ProbesTypeCorrect == Spec => []TypeOK
<1> QED
  BY ProbesTypeInit, ProbesTypeStep, PTL DEF Spec

-----------------------------------------------------------------------------
(***************************************************************************)
(* The sweep.  A reply that is out before the receiver may stop was heard. *)
(***************************************************************************)
Hearing ==
  at = "sweep" =>
    /\ ~listening => clock = Window
    /\ \A d \in present \ replied : clock <= asked[d] + Latency
    /\ \A d \in replied : asked[d] <= clock
    /\ \A d \in replied : d \in results \/ asked[d] + Latency >= Window

LEMMA HearingStep == TypeOK /\ Hearing /\ [Next]_vars => Hearing'
<1> SUFFICES ASSUME TypeOK, Hearing, [Next]_vars PROVE Hearing'
  OBVIOUS
<1> USE ProbesAssumption DEF NotYet
<1>1. ASSUME Tick PROVE Hearing'
  <2>1. \A d \in present \ replied : asked[d] \in 0..(Window + 1) /\ ~(clock >= asked[d] + Latency)
    BY <1>1 DEF Tick, Late, TypeOK
  <2>2. \A d \in present \ replied : clock + 1 <= asked[d] + Latency
    BY <2>1 DEF TypeOK
  <2> QED
    BY <1>1, <2>2 DEF Tick, Hearing, TypeOK
<1>2. ASSUME NEW e \in V4, Ask(e) PROVE Hearing'
  <2>1. asked' = [asked EXCEPT ![e] = clock] /\ asked \in [V4 -> 0..(Window + 1)]
    BY <1>2 DEF Ask, TypeOK
  <2>2. e \notin replied
    BY <1>2 DEF Ask, Hearing, TypeOK
  <2>3. \A d \in V4 : asked'[d] = IF d = e THEN clock ELSE asked[d]
    BY <2>1
  <2>4. \A d \in present \ replied : clock <= asked'[d] + Latency
    BY <1>2, <2>3 DEF Ask, Hearing, TypeOK
  <2>5. \A d \in replied : d \in results \/ asked'[d] + Latency >= Window
    BY <1>2, <2>2, <2>3 DEF Ask, Hearing, TypeOK
  <2>6. \A d \in replied : asked'[d] <= clock
    BY <1>2, <2>2, <2>3 DEF Ask, Hearing, TypeOK
  <2> QED
    BY <1>2, <2>4, <2>5, <2>6 DEF Ask, Hearing
<1>3. ASSUME NEW d \in V4, Reply(d) PROVE Hearing'
  <2>1. d \in results' \/ asked[d] + Latency >= Window
    BY <1>3 DEF Reply, Hearing, TypeOK
  <2> QED
    BY <1>3, <2>1 DEF Reply, Hearing, TypeOK
<1>4. ASSUME StopListening PROVE Hearing'
  BY <1>4 DEF StopListening, Hearing
<1>5. ASSUME JoinReceiver \/ SkipSweep PROVE Hearing'
  BY <1>5 DEF JoinReceiver, SkipSweep, EndSweep, Hearing
<1>6. ASSUME Pool PROVE Hearing'
  BY <1>6 DEF Pool, Pop, Send, Leave, EndScope, TakeResult, StartProbes,
              StartLookups, Working, Hearing
<1>7. ASSUME Lookups PROVE Hearing'
  BY <1>7 DEF Lookups, Answer, Drain, DrainedAll, Looking, Hearing
<1>8. ASSUME UNCHANGED vars PROVE Hearing'
  BY <1>8 DEF vars, sweepVars, Hearing
<1> QED
  BY <1>1, <1>2, <1>3, <1>4, <1>5, <1>6, <1>7, <1>8 DEF Next, Sweep

\* The sweep finds every device that can reply before the receiver stops, for
\* every length of the window and every latency.
THEOREM FoundInTimeHolds == Spec => FoundInTime
<1>1. Init => Hearing
  BY ProbesAssumption DEF Init, Hearing, NotYet
<1>2. TypeOK /\ Hearing /\ JoinReceiver =>
        \A d \in present : asked[d] + Latency < Window => new_map'[d] # Absent
  <2> SUFFICES ASSUME TypeOK, Hearing, JoinReceiver, NEW d \in present,
                      asked[d] + Latency < Window
               PROVE  new_map'[d] # Absent
    OBVIOUS
  <2>1. d \in Device /\ asked[d] \in Nat /\ d \in V4
    BY ProbesAssumption DEF TypeOK, V4, NotYet
  <2>2. d \in results
    BY <2>1, ProbesAssumption DEF JoinReceiver, Hearing, TypeOK
  <2>3. Found(results, "resolving")[d] = Seen("resolving")
    BY <2>1, <2>2 DEF Found
  <2>4. Seen("resolving") \in Entry
    BY DEF Seen, Entry, Name
  <2> QED
    BY <2>1, <2>3, <2>4, DeviceAssumption DEF JoinReceiver, EndSweep, Overlay
<1>3. TypeOK /\ Hearing /\ [Next]_vars =>
        [JoinReceiver => \A d \in present :
           asked[d] + Latency < Window => new_map'[d] # Absent]_vars
  BY <1>2
<1> QED
  BY <1>1, <1>3, ProbesTypeInit, ProbesTypeStep, HearingStep, PTL DEF Spec, FoundInTime

-----------------------------------------------------------------------------
(***************************************************************************)
(* The pool.                                                               *)
(***************************************************************************)
\* Taking the first of a sequence shifts the others by one.
LEMMA TailShift ==
  ASSUME NEW T, NEW s \in Seq(T), s # <<>>
  PROVE  /\ 1 \in DOMAIN s /\ Head(s) = s[1]
         /\ \A i \in DOMAIN Tail(s) : i + 1 \in DOMAIN s /\ Tail(s)[i] = s[i + 1]
         /\ \A i \in DOMAIN s : i = 1 \/ (i - 1 \in DOMAIN Tail(s) /\ s[i] = Tail(s)[i - 1])
         /\ DOMAIN s \subseteq Int /\ DOMAIN Tail(s) \subseteq Int
<1>1. DOMAIN s = 1..Len(s) /\ Len(s) \in Nat \ {0}
  BY EmptySeq, LenProperties
<1>2. /\ Head(s) = s[1] /\ Tail(s) \in Seq(T)
      /\ Len(Tail(s)) = Len(s) - 1
      /\ \A i \in 1..Len(Tail(s)) : Tail(s)[i] = s[i + 1]
  BY HeadTailProperties
<1>3. DOMAIN Tail(s) = 1..(Len(s) - 1)
  BY <1>2, LenProperties
<1>4. \A i \in 1..(Len(s) - 1) : i + 1 \in 1..Len(s) /\ Tail(s)[i] = s[i + 1]
  BY <1>1, <1>2
<1>5. \A i \in 1..Len(s) :
        i = 1 \/ (i - 1 \in 1..(Len(s) - 1) /\ s[i] = Tail(s)[i - 1])
  <2> SUFFICES ASSUME NEW i \in 1..Len(s), i # 1
               PROVE  i - 1 \in 1..(Len(s) - 1) /\ s[i] = Tail(s)[i - 1]
    OBVIOUS
  <2>1. i - 1 \in 1..(Len(s) - 1) /\ (i - 1) + 1 = i
    BY <1>1
  <2> QED
    BY <1>4, <2>1
<1>6. 1 \in 1..Len(s) /\ 1..Len(s) \subseteq Int /\ 1..(Len(s) - 1) \subseteq Int
  BY <1>1
<1> QED
  BY <1>1, <1>2, <1>3, <1>4, <1>5, <1>6

\* Adding one at the end leaves the others where they are.
LEMMA AppendKeeps ==
  ASSUME NEW T, NEW s \in Seq(T), NEW e \in T
  PROVE  /\ DOMAIN Append(s, e) = DOMAIN s \cup {Len(s) + 1}
         /\ Len(s) + 1 \notin DOMAIN s
         /\ \A i \in DOMAIN s : Append(s, e)[i] = s[i]
         /\ Append(s, e)[Len(s) + 1] = e
<1>1. DOMAIN s = 1..Len(s) /\ Len(s) \in Nat
  BY LenProperties
<1>2. /\ Append(s, e) \in Seq(T) /\ Len(Append(s, e)) = Len(s) + 1
      /\ \A i \in 1..Len(s) : Append(s, e)[i] = s[i]
      /\ Append(s, e)[Len(s) + 1] = e
  BY AppendProperties
<1>3. DOMAIN Append(s, e) = 1..(Len(s) + 1)
  BY <1>2, LenProperties
<1> QED
  BY <1>1, <1>2, <1>3

\* A worker takes the first address of the queue.
LEMMA PopOnce ==
  ASSUME TypeOK, ProbedOnce, NEW w \in Worker, Pop(w)
  PROVE  ProbedOnce'
<1> DEFINE d == ips[1]
<1>1. /\ ips \in Seq(V4) /\ ips # <<>> /\ ips' = Tail(ips) /\ holds[w] = Free
      /\ holds' = [holds EXCEPT ![w] = d] /\ d \in V4
      /\ result_tx' = result_tx /\ targets' = targets /\ at' = at /\ Working
  BY TailShift, ElementOfSeq DEF Pop, TypeOK
<1>2. Queued = {d} \cup Queued' /\ d \notin Queued'
      /\ \A i, j \in DOMAIN ips' : ips'[i] = ips'[j] => i = j
  <2>1. /\ 1 \in DOMAIN ips
        /\ \A i \in DOMAIN ips' : i + 1 \in DOMAIN ips /\ ips'[i] = ips[i + 1]
        /\ \A i \in DOMAIN ips : i = 1 \/ (i - 1 \in DOMAIN ips' /\ ips[i] = ips'[i - 1])
        /\ DOMAIN ips \subseteq Int /\ DOMAIN ips' \subseteq Int
    BY <1>1, TailShift
  <2>2. 0 \notin DOMAIN ips'
    BY <1>1, LenProperties, HeadTailProperties
  <2>3. \A i, j \in DOMAIN ips : ips[i] = ips[j] => i = j
    BY DEF ProbedOnce
  <2>4. \A i, j \in DOMAIN ips' : ips'[i] = ips'[j] => i = j
    BY <2>1, <2>3
  <2>5. Queued \subseteq {d} \cup Queued'
    BY <2>1 DEF Queued
  <2>6. {d} \cup Queued' \subseteq Queued
    BY <2>1 DEF Queued
  <2>7. d \notin Queued'
    BY <2>1, <2>2, <2>3 DEF Queued
  <2> QED
    BY <2>4, <2>5, <2>6, <2>7
<1>3. \A v \in Worker : holds'[v] = IF v = w THEN d ELSE holds[v]
  BY <1>1 DEF TypeOK
<1>4. Held' = Held \cup {d}
  BY <1>1, <1>3, ProbesAssumption DEF Held
<1>5. d \notin Held /\ d \notin Reported
  BY <1>2 DEF ProbedOnce
<1>6. \A u, v \in Worker : holds'[u] = holds'[v] /\ holds'[u] \in V4 => u = v
  BY <1>3, <1>5 DEF ProbedOnce, Held
<1>7. Reported' = Reported /\ Working'
  BY <1>1 DEF Reported, Working
<1> QED
  BY <1>1, <1>2, <1>4, <1>5, <1>6, <1>7 DEF ProbedOnce

\* A worker reports the address it holds.
LEMMA SendOnce ==
  ASSUME TypeOK, ProbedOnce, NEW w \in Worker, Send(w)
  PROVE  ProbedOnce'
<1> DEFINE d == holds[w]
<1>1. PICK got \in BOOLEAN : result_tx' = Append(result_tx, <<d, got>>)
  BY DEF Send
<1>2. /\ d \in V4 /\ holds' = [holds EXCEPT ![w] = Free] /\ ips' = ips
      /\ targets' = targets /\ at' = at /\ Working
  BY DEF Send
<1>3. <<d, got>> \in V4 \X BOOLEAN /\ <<d, got>>[1] = d
  BY <1>2
<1>4. /\ DOMAIN result_tx' = DOMAIN result_tx \cup {Len(result_tx) + 1}
      /\ Len(result_tx) + 1 \notin DOMAIN result_tx
      /\ \A i \in DOMAIN result_tx : result_tx'[i] = result_tx[i]
      /\ result_tx'[Len(result_tx) + 1] = <<d, got>>
  BY <1>1, <1>3, AppendKeeps DEF TypeOK
<1>5. Reported' = Reported \cup {d}
  BY <1>3, <1>4 DEF Reported
<1>6. d \in Held /\ d \notin Reported
  BY <1>2 DEF Held, ProbedOnce
<1>7. \A i, j \in DOMAIN result_tx' : result_tx'[i][1] = result_tx'[j][1] => i = j
  BY <1>3, <1>4, <1>6 DEF ProbedOnce, Reported
<1>8. \A v \in Worker : holds'[v] = IF v = w THEN Free ELSE holds[v]
  BY <1>2 DEF TypeOK
<1>9. Held' = Held \ {d}
  BY <1>2, <1>8, ProbesAssumption DEF Held, ProbedOnce
<1>10. \A u, v \in Worker : holds'[u] = holds'[v] /\ holds'[u] \in V4 => u = v
  BY <1>8, ProbesAssumption DEF ProbedOnce
<1>11. Queued' = Queued /\ Working'
  BY <1>2 DEF Queued, Working
<1> QED
  BY <1>2, <1>5, <1>6, <1>7, <1>9, <1>10, <1>11 DEF ProbedOnce

\* A pool begins: every address is queued, once.
LEMMA StartOnce ==
  ASSUME NEW S \in SUBSET V4, StartPool(S)
  PROVE  ProbedOnce'
<1>1. Queued' = S /\ targets' = S /\ \A i, j \in DOMAIN ips' : ips'[i] = ips'[j] => i = j
  BY OrderIsSeq DEF StartPool, Queued
<1>2. \A w \in Worker : holds'[w] = Free
  BY DEF StartPool
<1>3. Held' = {}
  BY <1>2, ProbesAssumption DEF Held
<1>4. Reported' = {} /\ DOMAIN result_tx' = {}
  BY DEF StartPool, Reported
<1> QED
  BY <1>1, <1>2, <1>3, <1>4, ProbesAssumption DEF ProbedOnce

LEMMA OnceStep == TypeOK /\ ProbedOnce /\ [Next]_vars => ProbedOnce'
<1> SUFFICES ASSUME TypeOK, ProbedOnce, [Next]_vars PROVE ProbedOnce'
  OBVIOUS
<1>1. ASSUME NEW w \in Worker, Leave(w) PROVE ProbedOnce'
  <2>1. \A v \in Worker : holds'[v] = IF v = w THEN Gone ELSE holds[v]
    BY <1>1 DEF Leave, TypeOK
  <2>2. Held' = Held
    BY <1>1, <2>1, ProbesAssumption DEF Leave, Held
  <2>3. \A u, v \in Worker : holds'[u] = holds'[v] /\ holds'[u] \in V4 => u = v
    BY <2>1, ProbesAssumption DEF ProbedOnce
  <2>4. Queued' = Queued /\ Reported' = Reported /\ Working' /\ Working
    BY <1>1 DEF Leave, Queued, Reported, Working
  <2> QED
    BY <1>1, <2>2, <2>3, <2>4 DEF Leave, ProbedOnce
<1>2. ASSUME EndScope PROVE ProbedOnce'
  <2>1. Held' = {} /\ Queued' = Queued /\ Reported' = Reported
    BY <1>2, ProbesAssumption DEF EndScope, Held, Queued, Reported, poolVars
  <2>2. ~Working'
    BY <1>2 DEF EndScope, Working
  <2> QED
    BY <1>2, <2>1, <2>2 DEF EndScope, ProbedOnce, poolVars
<1>3. ASSUME TakeResult PROVE ProbedOnce'
  <2>1. result_tx \in Seq(V4 \X BOOLEAN) /\ result_tx # <<>> /\ result_tx' = Tail(result_tx)
    BY <1>3 DEF TakeResult, TypeOK
  <2>2. Reported' \subseteq Reported
    BY <2>1, TailShift DEF Reported
  <2>3. \A i, j \in DOMAIN result_tx' : result_tx'[i][1] = result_tx'[j][1] => i = j
    BY <2>1, TailShift DEF ProbedOnce
  <2>4. Held' = Held /\ Queued' = Queued /\ ~Working' /\ ~Working
    BY <1>3 DEF TakeResult, Held, Queued, Working
  <2> QED
    BY <1>3, <2>2, <2>3, <2>4 DEF TakeResult, ProbedOnce
<1>4. ASSUME JoinReceiver \/ SkipSweep \/ StartProbes PROVE ProbedOnce'
  <2>1. \E S \in SUBSET V4 : StartPool(S)
    BY <1>4 DEF JoinReceiver, SkipSweep, StartProbes, EndSweep
  <2> QED
    BY <2>1, StartOnce
<1>5. ASSUME UNCHANGED <<ips, holds, result_tx>>, ~Working, ~Working'
      PROVE  ProbedOnce'
  BY <1>5 DEF ProbedOnce, Queued, Held, Reported
<1>6. ASSUME StartLookups \/ Lookups PROVE ProbedOnce'
  BY <1>5, <1>6 DEF StartLookups, Lookups, Answer, Drain, DrainedAll, Looking,
                    Working, poolVars
<1>7. ASSUME Tick \/ StopListening \/ \E d \in V4 : Ask(d) \/ Reply(d)
      PROVE  ProbedOnce'
  BY <1>5, <1>7 DEF Tick, StopListening, Ask, Reply, Working, poolVars
<1>8. ASSUME UNCHANGED vars PROVE ProbedOnce'
  BY <1>8 DEF vars, poolVars, ProbedOnce, Queued, Held, Reported, Working
<1> QED
  BY <1>1, <1>2, <1>3, <1>4, <1>6, <1>7, <1>8, PopOnce, SendOnce
  DEF Next, Sweep, Pool

\* However the workers are scheduled and however many they are, no address is
\* lost and none is taken twice.
THEOREM ProbedOnceHolds == Spec => []ProbedOnce
<1>1. Init => ProbedOnce
  <2> SUFFICES ASSUME Init PROVE ProbedOnce
    OBVIOUS
  <2>1. Queued = {} /\ Reported = {} /\ DOMAIN ips = {} /\ DOMAIN result_tx = {}
    BY DEF Init, Queued, Reported
  <2>2. Held = {} /\ \A w \in Worker : holds[w] \notin V4
    BY ProbesAssumption DEF Init, Held
  <2>3. ~Working
    BY DEF Init, Working
  <2> QED
    BY <2>1, <2>2, <2>3 DEF ProbedOnce
<1> QED
  BY <1>1, ProbesTypeInit, ProbesTypeStep, OnceStep, PTL DEF Spec

-----------------------------------------------------------------------------
(***************************************************************************)
(* The lookups.                                                            *)
(***************************************************************************)
\* How the lookups may have left the entry of d.
LookedAt(d) ==
  \/ /\ devices[d] = before[d]
     /\ d \in drained /\ before[d] # Absent => before[d].name # "resolving"
  \/ /\ before[d] # Absent /\ Unresolved(before[d]) /\ d \in snapshot
     /\ devices[d] = [before[d] EXCEPT !.name = "named"]
  \/ /\ d \in drained /\ before[d] # Absent /\ before[d].name = "resolving"
     /\ devices[d] = [before[d] EXCEPT !.name = "dash"]

\* A name an IPv4 address got has reached the fe80 address f of its MAC.
Reached(f, d) ==
  /\ mac[f] = d /\ devices[f] # Absent
  /\ before[d] # Absent /\ Unresolved(before[d]) /\ IsNamed(d)
  => IsNamed(f)

LookupInv ==
  at \in {"fe80", "ipv4", "end"} =>
    /\ \A d \in Resolvable : before[d] # Absent /\ Unresolved(before[d]) => d \in snapshot
    /\ \A d \in Device : LookedAt(d)
    /\ \A f \in Fe80, d \in V4 : Reached(f, d)
    /\ at = "end" => snapshot \subseteq drained

\* What one drained lookup does to the entry of any device.
LEMMA DrainEffect ==
  ASSUME devices \in DeviceMaps, NEW e \in Device,
         NEW D, D = Drained(e), NEW d \in Device
  PROVE  /\ \/ D[d] = devices[d]
            \/ /\ devices[d] # Absent /\ Unresolved(devices[d]) /\ d \in {e} \cup Fe80
               /\ D[d] = [devices[d] EXCEPT !.name = "named"]
            \/ /\ devices[d] # Absent /\ devices[d].name = "resolving" /\ d = e
               /\ D[d] = [devices[d] EXCEPT !.name = "dash"]
         /\ d = e /\ devices[d] # Absent => D[d].name # "resolving"
<1>1. CASE Got(e) /\ devices[e] # Absent /\ Unresolved(devices[e]) /\ e \in V4
  <2> DEFINE S == {e} \cup {f \in Fe80 : mac[f] = e}
  <2>1. D = NameUnresolved(devices, S)
    BY <1>1 DEF Drained
  <2>2. D[d] = IF d \in S /\ devices[d] # Absent /\ Unresolved(devices[d])
                 THEN [devices[d] EXCEPT !.name = "named"] ELSE devices[d]
    BY <2>1 DEF NameUnresolved
  <2>3. devices[d] # Absent => devices[d] \in Entry
    BY DEF DeviceMaps
  <2> QED
    BY <1>1, <2>2, <2>3 DEF Entry
<1>2. CASE ~(Got(e) /\ devices[e] # Absent /\ Unresolved(devices[e]) /\ e \in V4)
  <2>1. D = Looked(devices, {e}, IF Got(e) THEN {e} ELSE {})
    BY <1>2 DEF Drained
  <2>2. devices[d] # Absent => devices[d] \in Entry
    BY DEF DeviceMaps
  <2>3. CASE d # e \/ devices[d] = Absent
    BY <2>1, <2>3 DEF Looked
  <2>4. CASE d = e /\ devices[d] # Absent /\ Got(e)
    <3>1. D[d] = IF Unresolved(devices[d]) THEN [devices[d] EXCEPT !.name = "named"]
                                          ELSE devices[d]
      BY <2>1, <2>4 DEF Looked
    <3> QED
      BY <2>2, <2>4, <3>1 DEF Entry, Unresolved
  <2>5. CASE d = e /\ devices[d] # Absent /\ ~Got(e)
    <3>1. D[d] = IF devices[d].name = "resolving" THEN [devices[d] EXCEPT !.name = "dash"]
                                                  ELSE devices[d]
      BY <2>1, <2>5 DEF Looked
    <3> QED
      BY <2>2, <2>5, <3>1 DEF Entry, Unresolved
  <2> QED
    BY <2>3, <2>4, <2>5
<1> QED
  BY <1>1, <1>2

\* The name of an IPv4 address goes to the fe80 addresses of its MAC at once.
LEMMA DrainShares ==
  ASSUME devices \in DeviceMaps, NEW e \in V4,
         NEW D, D = Drained(e), NEW f \in Fe80, mac[f] = e,
         devices[f] # Absent, D[e] # devices[e], D[e].name = "named"
  PROVE  D[f].name = "named"
<1>1. e \in Device /\ f \in Device /\ devices[e] \in Entry \cup {Absent} /\ devices[f] \in Entry
  BY DeviceAssumption DEF V4, DeviceMaps
<1>2. CASE Got(e) /\ devices[e] # Absent /\ Unresolved(devices[e])
  <2>1. D = NameUnresolved(devices, {e} \cup {g \in Fe80 : mac[g] = e})
    BY <1>2 DEF Drained
  <2>2. D[f] = IF Unresolved(devices[f]) THEN [devices[f] EXCEPT !.name = "named"]
                                         ELSE devices[f]
    BY <1>1, <2>1 DEF NameUnresolved
  <2> QED
    BY <1>1, <2>2 DEF Entry, Name, Unresolved
<1>3. CASE ~(Got(e) /\ devices[e] # Absent /\ Unresolved(devices[e]))
  <2>1. D = Looked(devices, {e}, IF Got(e) THEN {e} ELSE {})
    BY <1>3 DEF Drained
  <2>2. devices[e] # Absent /\ ~Got(e)
    BY <1>1, <1>3, <2>1 DEF Looked
  <2>3. D[e] = [devices[e] EXCEPT !.name = "dash"]
    BY <1>1, <2>1, <2>2 DEF Looked
  <2> QED
    BY <1>1, <2>2, <2>3 DEF Entry
<1> QED
  BY <1>2, <1>3

LEMMA DrainKeeps ==
  ASSUME TypeOK, LookupInv, NEW e \in Device, Drain(e)
  PROVE  LookupInv'
<1>1. /\ Looking /\ e \in snapshot /\ at' = at /\ mac' = mac /\ before' = before
      /\ snapshot' = snapshot /\ drained' = drained \cup {e}
      /\ devices' = Drained(e)
  BY DEF Drain
<1>2. /\ devices \in DeviceMaps /\ before \in DeviceMaps /\ devices' \in DeviceMaps
  BY <1>1, DrainedMaps DEF TypeOK
<1>3. /\ \A d \in Resolvable : before[d] # Absent /\ Unresolved(before[d]) => d \in snapshot
      /\ \A d \in Device : LookedAt(d)
      /\ \A f \in Fe80, d \in V4 : Reached(f, d)
  BY <1>1 DEF LookupInv, Looking
<1>4. ASSUME NEW d \in Device
      PROVE  /\ \/ devices'[d] = devices[d]
                \/ /\ devices[d] # Absent /\ Unresolved(devices[d]) /\ d \in {e} \cup Fe80
                   /\ devices'[d] = [devices[d] EXCEPT !.name = "named"]
                \/ /\ devices[d] # Absent /\ devices[d].name = "resolving" /\ d = e
                   /\ devices'[d] = [devices[d] EXCEPT !.name = "dash"]
             /\ d = e /\ devices[d] # Absent => devices'[d].name # "resolving"
  BY <1>1, <1>2, DrainEffect
<1>5. ASSUME NEW d \in Device PROVE LookedAt(d)'
  <2>1. LookedAt(d) /\ (before[d] # Absent => before[d] \in Entry)
    BY <1>2, <1>3 DEF DeviceMaps
  <2>2. CASE devices'[d] = devices[d]
    BY <1>1, <1>4, <2>1, <2>2 DEF LookedAt
  <2>3. CASE /\ devices[d] # Absent /\ Unresolved(devices[d]) /\ d \in {e} \cup Fe80
             /\ devices'[d] = [devices[d] EXCEPT !.name = "named"]
    <3>1. before[d] # Absent /\ before[d] \in Entry /\ Unresolved(before[d])
      BY <2>1, <2>3 DEF LookedAt, Entry, Unresolved
    <3>2. d \in snapshot
      BY <1>1, <1>3, <2>3, <3>1, DeviceAssumption
    <3>3. devices'[d] = [before[d] EXCEPT !.name = "named"]
      BY <2>1, <2>3, <3>1 DEF LookedAt, Entry
    <3> QED
      BY <1>1, <3>1, <3>2, <3>3 DEF LookedAt
  <2>4. CASE /\ devices[d] # Absent /\ devices[d].name = "resolving" /\ d = e
             /\ devices'[d] = [devices[d] EXCEPT !.name = "dash"]
    <3>1. devices[d] = before[d] /\ before[d] # Absent
      BY <2>1, <2>4 DEF LookedAt, Entry
    <3> QED
      BY <1>1, <2>4, <3>1 DEF LookedAt
  <2> QED
    BY <1>4, <2>2, <2>3, <2>4
<1>6. ASSUME NEW f \in Fe80, NEW d \in V4,
             mac[f] = d, devices'[f] # Absent,
             before[d] # Absent, Unresolved(before[d]), IsNamed(d)'
      PROVE  IsNamed(f)'
  <2>1. f \in Device /\ d \in Device
    BY DeviceAssumption DEF V4
  <2>2. /\ devices[f] # Absent /\ devices[f] \in Entry
        /\ \/ devices'[f] = devices[f]
           \/ Unresolved(devices[f]) /\ devices'[f] = [devices[f] EXCEPT !.name = "named"]
           \/ /\ devices[f].name = "resolving"
              /\ devices'[f] = [devices[f] EXCEPT !.name = "dash"]
    BY <1>2, <1>4, <1>6, <2>1 DEF DeviceMaps
  <2>3. CASE IsNamed(d)
    <3>1. IsNamed(f)
      BY <1>3, <1>6, <2>2, <2>3 DEF Reached
    <3>2. devices[f].name = "named"
      BY <3>1 DEF IsNamed
    <3> QED
      BY <2>1, <2>2, <3>2, <1>6 DEF IsNamed, Known, Unresolved
  <2>4. CASE ~IsNamed(d)
    <3>1. devices'[d] # devices[d] /\ devices'[d].name = "named"
      BY <1>6, <2>4 DEF IsNamed, Known
    <3>2. /\ \/ devices'[d] = devices[d]
             \/ d \in {e} \cup Fe80
             \/ d = e
      BY <1>4, <2>1
    <3>3. d = e
      BY <3>1, <3>2 DEF V4
    <3>4. devices'[f].name = "named"
      BY <1>1, <1>2, <1>6, <2>2, <3>1, <3>3, DrainShares
    <3> QED
      BY <1>6, <2>1, <3>4 DEF IsNamed, Known
  <2> QED
    BY <2>3, <2>4
<1>7. \A f \in Fe80, d \in V4 : Reached(f, d)'
  BY <1>1, <1>6 DEF Reached
<1>8. at' # "end"
  BY <1>1 DEF Looking
<1> QED
  BY <1>1, <1>3, <1>5, <1>7, <1>8 DEF LookupInv

LEMMA LookupInvStep == TypeOK /\ LookupInv /\ [Next]_vars => LookupInv'
<1> SUFFICES ASSUME TypeOK, LookupInv, [Next]_vars PROVE LookupInv'
  OBVIOUS
<1>1. ASSUME StartLookups PROVE LookupInv'
  <2>1. /\ before' = devices' /\ drained' = {} /\ at' = "fe80"
        /\ snapshot' = {d \in Resolvable :
                         \/ new_map[d] # Absent
                         \/ devices'[d] # Absent /\ Unresolved(devices'[d])}
    BY <1>1 DEF StartLookups
  <2>2. \A d \in Device : LookedAt(d)'
    BY <2>1 DEF LookedAt
  <2>3. \A f \in Fe80, d \in V4 : Reached(f, d)'
    BY <2>1 DEF Reached, IsNamed, Unresolved
  <2> QED
    BY <2>1, <2>2, <2>3 DEF LookupInv
<1>2. ASSUME Sweep PROVE LookupInv'
  BY <1>2 DEF Sweep, Tick, Ask, Reply, StopListening, JoinReceiver, SkipSweep,
              EndSweep, LookupInv
<1>3. ASSUME Pool, ~StartLookups PROVE LookupInv'
  BY <1>3 DEF Pool, Pop, Send, Leave, EndScope, TakeResult, StartProbes, Working,
              LookupInv
<1>4. ASSUME NEW d \in Device, Answer(d) PROVE LookupInv'
  BY <1>4 DEF Answer, LookupInv, LookedAt, Reached, IsNamed, Known
<1>5. ASSUME DrainedAll PROVE LookupInv'
  <2>1. UNCHANGED lookupVars
    BY <1>5 DEF DrainedAll
  <2>2. at' = "end" => snapshot \subseteq drained
    BY <1>5 DEF DrainedAll, Looking
  <2> QED
    BY <1>5, <2>1, <2>2 DEF DrainedAll, Looking, LookupInv, lookupVars, LookedAt, Reached,
                            IsNamed, Known
<1>6. ASSUME UNCHANGED vars PROVE LookupInv'
  BY <1>6 DEF vars, lookupVars, LookupInv, LookedAt, Reached, IsNamed, Known
<1> QED
  BY <1>1, <1>2, <1>3, <1>4, <1>5, <1>6, DrainKeeps DEF Next, Lookups

LEMMA LookupInvAlways == Spec => [](TypeOK /\ LookupInv)
<1>1. Init => LookupInv
  BY DEF Init, LookupInv
<1> QED
  BY <1>1, ProbesTypeInit, ProbesTypeStep, LookupInvStep, PTL DEF Spec

\* However the lookup threads are timed, an fe80 address does not stay without
\* a name when the lookups named its IPv4 counterpart.
THEOREM Fe80NamedHolds == Spec => []Fe80Named
<1>1. TypeOK /\ LookupInv => Fe80Named
  BY DEF LookupInv, Fe80Named, Reached
<1> QED
  BY <1>1, LookupInvAlways, PTL

\* However the lookup threads are timed, together they do what the one step
\* Lookup of Discovery does: that step is an abstraction of them.
THEOREM LookupsAreOneStepHolds == Spec => []LookupsAreOneStep
<1>1. TypeOK /\ LookupInv => LookupsAreOneStep
  <2> SUFFICES ASSUME TypeOK, LookupInv, at = "end"
               PROVE  \E R \in SUBSET snapshot : devices = Looked(before, snapshot, R)
    BY DEF LookupsAreOneStep
  <2> DEFINE R == {d \in snapshot : devices[d] # before[d] /\ devices[d].name = "named"}
  <2>1. ASSUME NEW d \in Device
        PROVE  devices[d] = Looked(before, snapshot, R)[d]
    <3>1. /\ LookedAt(d) /\ snapshot \subseteq drained /\ drained \subseteq snapshot
          /\ before[d] # Absent => before[d] \in Entry
      BY <2>1 DEF LookupInv, TypeOK, DeviceMaps
    <3>2. Looked(before, snapshot, R)[d] =
            IF d \notin snapshot \/ before[d] = Absent THEN before[d]
            ELSE IF d \in R
              THEN (IF Unresolved(before[d]) THEN [before[d] EXCEPT !.name = "named"]
                                            ELSE before[d])
            ELSE IF before[d].name = "resolving" THEN [before[d] EXCEPT !.name = "dash"]
            ELSE before[d]
      BY DEF Looked
    <3>3. CASE devices[d] = before[d]
      BY <3>1, <3>2, <3>3 DEF LookedAt, Entry, Unresolved
    <3>4. CASE /\ before[d] # Absent /\ Unresolved(before[d]) /\ d \in snapshot
               /\ devices[d] = [before[d] EXCEPT !.name = "named"]
      <4>1. d \in R
        BY <3>1, <3>4 DEF Entry, Unresolved
      <4> QED
        BY <3>2, <3>4, <4>1
    <3>5. CASE /\ d \in drained /\ before[d] # Absent /\ before[d].name = "resolving"
               /\ devices[d] = [before[d] EXCEPT !.name = "dash"]
      <4>1. d \notin R
        BY <3>1, <3>5 DEF Entry
      <4> QED
        BY <3>1, <3>2, <3>5, <4>1
    <3> QED
      BY <3>1, <3>3, <3>4, <3>5 DEF LookedAt
  <2>2. devices = Looked(before, snapshot, R)
    BY <2>1 DEF TypeOK, DeviceMaps, Looked
  <2> QED
    BY <2>2
<1> QED
  BY <1>1, LookupInvAlways, PTL
=============================================================================
