----------------------------- MODULE ScanProbes -----------------------------
(***************************************************************************)
(* The threads inside one scan that Discovery takes for single steps: the  *)
(* sender and the receiver of the ARP sweep, the workers that probe the    *)
(* devices found, and the threads that look names up.  The scan is not     *)
(* cancelled (Discovery has the cancellations).  What a phase keeps in     *)
(* local variables is forgotten when the phase ends.                       *)
(***************************************************************************)
EXTENDS DeviceMap, Naturals, SequencesExt

CONSTANTS
  Window,      \* how long the receiver listens: 3 seconds in the code
  Latency,     \* within which a device replies, in the same unit
  Worker,      \* 8 in the code
  Free, Gone   \* what a worker holds between two targets, and after the last

\* An IPv4 address is a number, and the sweep asks for them in their order.
V4 == Device \ Fe80

ASSUME ProbesAssumption ==
  /\ V4 \subseteq Nat /\ Free \notin V4 /\ Gone \notin V4
  /\ Window \in Nat /\ Latency \in Nat
  /\ IsFiniteSet(Device)

VARIABLES
  at,            \* where perform_scan and its enrichment thread are
  new_map,
  \* The ARP sweep.
  present,       \* the devices that reply to a request
  clock,         \* time since the receiver started, up to Window
  asked,         \* when a request was sent for an address
  replied,       \* the devices whose reply came
  listening,     \* whether the receiver listens
  results,       \* what it heard
  \* A pool of workers.
  targets,       \* what the pool was given
  ips, holds, result_tx,
  \* The lookups.
  mac,           \* the IPv4 address of the MAC of an fe80 address, if any
  devices,       \* active_discovery of the scan (devices_clone)
  before,        \* what it was when the lookups began
  snapshot,      \* the addresses a thread was started for
  answer,        \* what the thread of an address sent
  drained        \* the addresses whose thread was waited for

sweepVars  == <<present, clock, asked, replied, listening, results>>
poolVars   == <<targets, ips, holds, result_tx>>
lookupVars == <<mac, devices, before, snapshot, answer, drained>>
vars       == <<at, new_map, sweepVars, poolVars, lookupVars>>

\* Later than any request the receiver can hear the reply of.
NotYet == Window + 1

TypeOK ==
  /\ at \in {"sweep", "wake", "woken", "probe", "probed", "fe80", "ipv4", "end"}
  /\ {new_map, devices, before} \subseteq DeviceMaps
  /\ present \subseteq V4 /\ replied \subseteq V4 /\ results \subseteq V4
  /\ clock \in 0..Window /\ listening \in BOOLEAN
  /\ asked \in [V4 -> 0..NotYet]
  /\ targets \subseteq V4 /\ ips \in Seq(V4)
  /\ holds \in [Worker -> V4 \cup {Free, Gone}]
  /\ result_tx \in Seq(V4 \X BOOLEAN)
  /\ mac \in [Fe80 -> V4 \cup {Absent}]
  /\ snapshot \subseteq Resolvable /\ drained \subseteq snapshot
  /\ answer \in [Device -> {"none", "waits", "name"}]

NoLookups ==
  /\ mac = [f \in Fe80 |-> Absent]
  /\ devices = EmptyMap /\ before = EmptyMap
  /\ snapshot = {} /\ drained = {} /\ answer = [d \in Device |-> "waits"]

\* The ARP table of the system was read: new_map has what it lists.
Init ==
  /\ at = "sweep"
  /\ \E S \in SUBSET Device :
       new_map = Overlay(Found(S \cap Resolvable, "resolving"), Found(S, "dash"))
  /\ present \in SUBSET V4
  /\ clock = 0 /\ asked = [d \in V4 |-> NotYet]
  /\ replied = {} /\ listening = TRUE /\ results = {}
  /\ targets = {} /\ ips = <<>> /\ result_tx = <<>>
  /\ holds = [w \in Worker |-> Gone]
  /\ NoLookups

-----------------------------------------------------------------------------
(***************************************************************************)
(* The ARP sweep.                                                          *)
(***************************************************************************)
Late(d) == clock >= asked[d] + Latency

\* Time passes while the sender pauses after a request or waits.
Tick ==
  /\ at = "sweep" /\ clock < Window
  /\ \A d \in present \ replied : ~Late(d)
  /\ clock' = clock + 1
  /\ UNCHANGED <<at, new_map, present, asked, replied, listening, results, poolVars,
                 lookupVars>>

\* The sender asks for the next address of the subnet.
Ask(d) ==
  /\ at = "sweep"
  /\ asked[d] = NotYet
  /\ \A e \in V4 : e < d => asked[e] # NotYet
  /\ \A e \in V4 : asked[e] = clock => clock = Window
  /\ asked' = [asked EXCEPT ![d] = clock]
  /\ UNCHANGED <<at, new_map, present, clock, replied, listening, results, poolVars,
                 lookupVars>>

\* A device that was asked replies, which the receiver hears while it listens.
Reply(d) ==
  /\ at = "sweep"
  /\ d \in present \ replied /\ asked[d] <= clock
  /\ replied' = replied \cup {d}
  /\ results' = IF listening THEN results \cup {d} ELSE results
  /\ UNCHANGED <<at, new_map, present, clock, asked, listening, poolVars, lookupVars>>

\* (bug) A read that times out ends the receiver.
StopListening_AtTimeout ==
  /\ at = "sweep" /\ listening
  /\ listening' = FALSE
  /\ UNCHANGED <<at, new_map, present, clock, asked, replied, results, poolVars,
                 lookupVars>>

\* The three seconds are over; a read that timed out before them is repeated.
StopListening ==
  /\ at = "sweep" /\ listening
  /\ clock = Window
  /\ listening' = FALSE
  /\ UNCHANGED <<at, new_map, present, clock, asked, replied, results, poolVars,
                 lookupVars>>

\* A pool begins to work on the addresses of S, in any order.
StartPool(S) ==
  /\ targets' = S
  /\ ips' \in SetToSeqs(S)
  /\ holds' = [w \in Worker |-> Free]
  /\ result_tx' = <<>>

EndSweep(heard) ==
  /\ at' = "wake"
  /\ new_map' = Overlay(Found(heard, "resolving"), new_map)
  /\ \E S \in SUBSET (Known(new_map) \cap V4) : StartPool(S)
  /\ present' = {} /\ clock' = 0 /\ asked' = [d \in V4 |-> NotYet]
  /\ replied' = {} /\ listening' = FALSE /\ results' = {}
  /\ UNCHANGED lookupVars

\* The sender is done and joins the receiver.  Stale entries of the table are
\* woken, which are any of them here.
JoinReceiver ==
  /\ at = "sweep" /\ ~listening
  /\ \A d \in V4 : asked[d] # NotYet
  /\ EndSweep(results)

\* The interface has no MAC or no IPv4 address, or cannot be opened.
SkipSweep ==
  /\ at = "sweep" /\ listening
  /\ clock = 0 /\ \A d \in V4 : asked[d] = NotYet
  /\ EndSweep({})

Sweep ==
  \/ Tick
  \/ \E d \in V4 : Ask(d) \/ Reply(d)
  \/ StopListening
  \/ JoinReceiver \/ SkipSweep

-----------------------------------------------------------------------------
(***************************************************************************)
(* A pool: workers take addresses from one queue and send what their       *)
(* probes got over one channel.                                            *)
(***************************************************************************)
Working == at \in {"wake", "probe"}

\* (bug) The queue is read under one lock and shortened under another.
Pop_TwoLocks(w) ==
  /\ Working /\ holds[w] = Free /\ ips # <<>>
  /\ holds' = [holds EXCEPT ![w] = Head(ips)]
  /\ ips' \in {ips, Tail(ips)}
  /\ UNCHANGED <<at, new_map, sweepVars, targets, result_tx, lookupVars>>

Pop(w) ==
  /\ Working /\ holds[w] = Free /\ ips # <<>>
  /\ holds' = [holds EXCEPT ![w] = Head(ips)]
  /\ ips' = Tail(ips)
  /\ UNCHANGED <<at, new_map, sweepVars, targets, result_tx, lookupVars>>

\* (bug) An address that did not answer is queued again.
Send_Retry(w) ==
  /\ Working /\ holds[w] \in V4
  /\ \/ result_tx' = Append(result_tx, <<holds[w], TRUE>>) /\ UNCHANGED ips
     \/ ips' = Append(ips, holds[w]) /\ UNCHANGED result_tx
  /\ holds' = [holds EXCEPT ![w] = Free]
  /\ UNCHANGED <<at, new_map, sweepVars, targets, lookupVars>>

\* The probe ended, with a name or without.
Send(w) ==
  /\ Working /\ holds[w] \in V4
  /\ \E got \in BOOLEAN : result_tx' = Append(result_tx, <<holds[w], got>>)
  /\ holds' = [holds EXCEPT ![w] = Free]
  /\ UNCHANGED <<at, new_map, sweepVars, targets, ips, lookupVars>>

Leave(w) ==
  /\ Working /\ holds[w] = Free /\ ips = <<>>
  /\ holds' = [holds EXCEPT ![w] = Gone]
  /\ UNCHANGED <<at, new_map, sweepVars, targets, ips, result_tx, lookupVars>>

\* (bug) The results are read while workers are left.
EndScope_QueueEmpty ==
  /\ Working /\ ips = <<>>
  /\ at' = IF at = "wake" THEN "woken" ELSE "probed"
  /\ UNCHANGED <<new_map, sweepVars, poolVars, lookupVars>>

\* The scope of the threads ends when all have; then the sender that theirs
\* were cloned from is dropped, so that the channel ends.
EndScope ==
  /\ Working
  /\ \A w \in Worker : holds[w] = Gone
  /\ at' = IF at = "wake" THEN "woken" ELSE "probed"
  /\ UNCHANGED <<new_map, sweepVars, poolVars, lookupVars>>

\* A name a probe got replaces what the entry shows.
TakeResult ==
  /\ at \in {"woken", "probed"} /\ result_tx # <<>>
  /\ new_map' = IF Head(result_tx)[2] THEN Rename(new_map, {Head(result_tx)[1]})
                                      ELSE new_map
  /\ result_tx' = Tail(result_tx)
  /\ UNCHANGED <<at, sweepVars, targets, ips, holds, lookupVars>>

\* What the mDNS listener and a query of three seconds heard enters with its
\* name; then all devices are probed but those that told their model.
StartProbes ==
  /\ at = "woken" /\ result_tx = <<>>
  /\ at' = "probe"
  /\ \E heard \in SUBSET Device :
       new_map' = Overlay(new_map, Found(heard, "named"))
  /\ \E S \in SUBSET (Known(new_map') \cap V4) : StartPool(S)
  /\ UNCHANGED <<sweepVars, lookupVars>>

\* The scan is merged into the list, and threads are started for the devices
\* it found and for those that have no name yet.
StartLookups ==
  /\ at = "probed" /\ result_tx = <<>>
  /\ \E cache \in [Device -> {Absent, Seen("named"), Seen("dash")}] :
       devices' = MergeScan(cache, new_map)
  /\ before' = devices'
  /\ snapshot' = {d \in Resolvable :
                    \/ new_map[d] # Absent
                    \/ devices'[d] # Absent /\ Unresolved(devices'[d])}
  /\ mac' \in [Fe80 -> V4 \cup {Absent}]
  /\ at' = "fe80"
  /\ new_map' = EmptyMap
  /\ targets' = {} /\ UNCHANGED <<ips, holds, result_tx>>
  /\ answer' = [d \in Device |-> "waits"] /\ drained' = {}
  /\ UNCHANGED sweepVars

Pool ==
  \/ \E w \in Worker : Pop(w) \/ Send(w) \/ Leave(w)
  \/ EndScope
  \/ TakeResult
  \/ StartProbes
  \/ StartLookups

-----------------------------------------------------------------------------
(***************************************************************************)
(* The lookups: a thread for each address, and the enrichment thread that  *)
(* waits for each, fe80 addresses first and for a fifth of a second only.  *)
(***************************************************************************)
Looking == at \in {"fe80", "ipv4"}

IsNamed(d) == d \in Known(devices) /\ devices[d].name = "named"

\* The thread of an IPv4 address asks mDNS, DNS and NetBIOS; that of an fe80
\* address takes what mDNS said or the name its IPv4 counterpart has by now.
Answer(d) ==
  /\ Looking /\ d \in snapshot /\ answer[d] = "waits"
  /\ \E a \in {"name", "none"} :
       /\ a = "none" /\ d \in Fe80 => ~IsNamed(mac[d])
       /\ answer' = [answer EXCEPT ![d] = a]
  /\ UNCHANGED <<at, new_map, sweepVars, poolVars, mac, devices, before, snapshot, drained>>

Got(d) == answer[d] = "name"

\* (bug) The counterparts of a device are looked for among those that still wait.
Drained_WaitingOnly(d) ==
  LET counterparts == {f \in Fe80 : mac[f] = d /\ devices[f] # Absent
                                      /\ devices[f].name = "resolving"}
  IN IF Got(d) /\ devices[d] # Absent /\ Unresolved(devices[d]) /\ d \in V4
       THEN NameUnresolved(devices, {d} \cup counterparts)
       ELSE Looked(devices, {d}, IF Got(d) THEN {d} ELSE {})

\* (bug) A lookup that got no name leaves the placeholder as it was.
Drained_NoName(d) ==
  LET counterparts == {f \in Fe80 : mac[f] = d}
  IN CASE ~Got(d)            -> devices
       [] Got(d) /\ d \in V4 -> NameUnresolved(devices, {d} \cup counterparts)
       [] OTHER              -> NameUnresolved(devices, {d})

\* A device is given the name its lookup got, or is no longer awaited.  A
\* name that replaces a placeholder of an IPv4 address is given to the fe80
\* addresses of its MAC at once, unless they have one.
Drained(d) ==
  LET counterparts == {f \in Fe80 : mac[f] = d}
  IN IF Got(d) /\ devices[d] # Absent /\ Unresolved(devices[d]) /\ d \in V4
       THEN NameUnresolved(devices, {d} \cup counterparts)
       ELSE Looked(devices, {d}, IF Got(d) THEN {d} ELSE {})

\* The next thread of the class that is waited for answered, or is given up; what
\* it sends later is lost.
Drain(d) ==
  /\ Looking /\ d \in snapshot \ drained
  /\ d \in Fe80 <=> at = "fe80"
  /\ devices' = Drained(d)
  /\ drained' = drained \cup {d}
  /\ UNCHANGED <<at, new_map, sweepVars, poolVars, mac, before, snapshot, answer>>

DrainedAll ==
  /\ Looking
  /\ at = "fe80" => snapshot \cap Fe80 \subseteq drained
  /\ at = "ipv4" => snapshot \subseteq drained
  /\ at' = IF at = "fe80" THEN "ipv4" ELSE "end"
  /\ UNCHANGED <<new_map, sweepVars, poolVars, lookupVars>>

Lookups == (\E d \in Device : Answer(d) \/ Drain(d)) \/ DrainedAll

-----------------------------------------------------------------------------
Next == Sweep \/ Pool \/ Lookups

\* All waits are timed: reads of the receiver, replies to probes, lookups.
Fairness ==
  /\ WF_vars(Sweep)
  /\ \A w \in Worker : WF_vars(Pop(w) \/ Send(w) \/ Leave(w))
  /\ WF_vars(EndScope \/ TakeResult \/ StartProbes \/ StartLookups)
  /\ WF_vars((\E d \in Device : Drain(d)) \/ DrainedAll)

Spec == Init /\ [][Next]_vars /\ Fairness

-----------------------------------------------------------------------------
(***************************************************************************)
(* Properties.                                                             *)
(***************************************************************************)
\* A device is found by the sweep if the reply to its request can come before
\* the receiver stops, whatever else happens meanwhile (discovery.rs 1482).
\* One that is asked later, in a large subnet, may be missed.
FoundInTime ==
  [][JoinReceiver => \A d \in present :
       asked[d] + Latency < Window => new_map'[d] # Absent]_vars

\* Where the addresses of a pool are.
Queued   == {ips[i] : i \in DOMAIN ips}
Held     == {holds[w] : w \in Worker} \cap V4
Reported == {result_tx[i][1] : i \in DOMAIN result_tx}

\* Workers on one queue neither lose an address nor take one twice, and all
\* reports are in before they are read (discovery.rs 2465).
ProbedOnce ==
  /\ Working => targets = Queued \cup Held \cup Reported
  /\ Queued \cap Held = {} /\ Queued \cap Reported = {} /\ Held \cap Reported = {}
  /\ \A i, j \in DOMAIN ips : ips[i] = ips[j] => i = j
  /\ \A v, w \in Worker : holds[v] = holds[w] /\ holds[v] \in V4 => v = w
  /\ \A i, j \in DOMAIN result_tx : result_tx[i][1] = result_tx[j][1] => i = j
  /\ ~Working => Held = {}

\* An fe80 address of the list has a name by the end if its IPv4 counterpart got
\* one from these lookups, however the threads were timed (discovery.rs 2812).
Fe80Named ==
  at = "end" =>
    \A f \in Fe80, d \in V4 :
      /\ mac[f] = d /\ devices[f] # Absent
      /\ before[d] # Absent /\ Unresolved(before[d]) /\ IsNamed(d)
      => IsNamed(f)

\* In the end the threads did what one step of Discovery does (its Lookup).
LookupsAreOneStep ==
  at = "end" =>
    \E R \in SUBSET snapshot : devices = Looked(before, snapshot, R)

\* The threads of a scan do not wait for one another for ever.
PhasesEnd == <>(at = "end")
=============================================================================
