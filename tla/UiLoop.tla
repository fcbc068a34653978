------------------------------- MODULE UiLoop -------------------------------
(***************************************************************************)
(* A turn of the UI loop against the threads that feed it: GeoLookup with  *)
(* the capture thread in front of it and the process cache beside it.  The *)
(* packets GeoLookup shows come from a channel here, behind the pair of    *)
(* MAC and address the capture thread sends first over another one.        *)
(***************************************************************************)
EXTENDS GeoLookup

CONSTANTS
  Program, NoProgram,  \* who may hold the traced local port; nobody
  NoPacket,            \* "the capture thread is between two frames"
  NoLimit,             \* no --limit argument
  MaxPerTurn,          \* 1000 in the code
  Network              \* the situations a run explores, see below

\* What a packet is to the loop: its addresses; whether it is a DHCP request
\* that names the device Local; and, for a packet of the traced connection,
\* the program that held the port when it was captured (known to nobody).
Packet == [dst : Ip \cup {Local}, src : Ip \cup {Local}, names : BOOLEAN,
           by : Program \cup {NoProgram}]

\* A situation: the packets and the senders of ARP replies on the network, the
\* programs that use the port (with them, its packets), the --limit arguments; and
\* a bound on both channels of the capture thread.
Situation == [packets : SUBSET Packet, arp : SUBSET (Ip \cup {Local}),
              programs : SUBSET Program, limits : SUBSET (Nat \cup {NoLimit}),
              queue : Nat \ {0}]

ASSUME UiAssumption ==
  /\ MaxPerTurn \in Nat \ {0}
  /\ NoPacket \notin Packet /\ NoProgram \notin Program /\ NoLimit \notin Nat
  /\ \A n \in Network : n \in Situation

VARIABLES
  network, limit,    \* one of Network, one of its limits
  \* The UI thread.
  stage,             \* what it does after the results are drained
  taken,             \* packets_this_tick
  count, limit_reached, channel_alive,
  passive,           \* the entry of Local in passive_discovery, by its name
  shown,             \* the program of the traced connection in connections
  \* The capture thread and its channels.
  capture, in_hand, heard, packets,
  \* The process cache thread, and the system's table it reads.
  owner, table, process_cache

loopVars    == <<stage, taken, count, limit_reached, channel_alive, passive, shown>>
captureVars == <<capture, in_hand, heard, packets>>
processVars == <<owner, table, process_cache>>
allVars     == <<vars, network, limit, loopVars, captureVars, processVars>>

Named == {"none", "dash", "named"}

UiTypeOK ==
  /\ TypeOK
  /\ network \in Network /\ limit \in network.limits
  /\ stage \in {"hear", "ingest", "keys"}
  /\ ui = "drain" => stage = "hear"
  /\ taken \in 0..MaxPerTurn /\ count \in Nat
  /\ limit_reached \in BOOLEAN /\ channel_alive \in BOOLEAN
  /\ passive \in Named
  /\ shown \in Program \cup {"none", "unknown"}
  /\ capture \in {"running", "stopped"}
  /\ in_hand \in Packet \cup {NoPacket}
  /\ heard \in Seq(Ip \cup {Local}) /\ Len(heard) <= network.queue
  /\ packets \in Seq(Packet) /\ Len(packets) <= network.queue
  /\ {owner, table, process_cache} \subseteq Program \cup {NoProgram}

UiInit ==
  /\ Init
  /\ network \in Network /\ limit \in network.limits
  /\ stage = "hear" /\ taken = 0 /\ count = 0
  /\ limit_reached = FALSE /\ channel_alive = TRUE
  /\ passive = "none" /\ shown = "none"
  /\ capture = "running" /\ in_hand = NoPacket /\ heard = <<>> /\ packets = <<>>
  /\ owner = NoProgram /\ table = NoProgram /\ process_cache = NoProgram

-----------------------------------------------------------------------------
(***************************************************************************)
(* The capture thread.                                                     *)
(***************************************************************************)
Waiting == {heard[i] : i \in DOMAIN heard}

\* A pair is sent over the passive channel.  At the bound of a run, one of an address
\* that waits in the channel already is left out: a second one changes nothing.
Tell(ip) ==
  \/ Len(heard) < network.queue /\ heard' = Append(heard, ip)
  \/ Len(heard) = network.queue /\ ip \in Waiting /\ UNCHANGED heard

\* An ARP reply, or a gratuitous one, of a real MAC; other ARP frames are
\* skipped.
HearArp(ip) ==
  /\ capture = "running" /\ in_hand = NoPacket
  /\ Tell(ip)
  /\ UNCHANGED <<vars, network, limit, loopVars, capture, in_hand, packets,
                 processVars>>

\* A frame that parses: its source is told before the packet is sent.
Parse(pkt) ==
  /\ capture = "running" /\ in_hand = NoPacket
  /\ pkt.by \in {owner, NoProgram}
  /\ Tell(pkt.src)
  /\ in_hand' = pkt
  /\ UNCHANGED <<vars, network, limit, loopVars, capture, packets, processVars>>

\* The filter of the capture thread is always All.
SendPacket ==
  /\ in_hand # NoPacket
  /\ Len(packets) < network.queue
  /\ packets' = Append(packets, in_hand)
  /\ in_hand' = NoPacket
  /\ UNCHANGED <<vars, network, limit, loopVars, capture, heard, processVars>>

\* It panics where the interface cannot be opened, and would in a parser; a
\* failed read is printed and the next frame awaited.
StopCapture ==
  /\ capture = "running" /\ in_hand = NoPacket
  /\ capture' = "stopped"
  /\ UNCHANGED <<vars, network, limit, loopVars, in_hand, heard, packets,
                 processVars>>

Capture ==
  \/ \E ip \in network.arp : HearArp(ip)
  \/ \E pkt \in network.packets : Parse(pkt)
  \/ SendPacket
  \/ StopCapture

-----------------------------------------------------------------------------
(***************************************************************************)
(* The process cache thread: once a second it reads the system's table and *)
(* then looks up the path of each owner of a port it has no entry for.     *)
(***************************************************************************)
\* A program binds the port or gives it back.
UsePort(p) ==
  /\ owner' = IF owner = p THEN NoProgram ELSE p
  /\ owner \in {p, NoProgram}
  /\ UNCHANGED <<vars, network, limit, loopVars, captureVars, table, process_cache>>

\* The table is not read where it grew between the two calls.
ReadTable ==
  /\ table = NoProgram
  /\ table' = owner
  /\ UNCHANGED <<vars, network, limit, loopVars, captureVars, owner, process_cache>>

\* A process that is gone, or protected, has no path.
ResolveTable ==
  /\ table # NoProgram
  /\ process_cache' \in {process_cache,
                         IF process_cache = NoProgram THEN table ELSE process_cache}
  /\ table' = NoProgram
  /\ UNCHANGED <<vars, network, limit, loopVars, captureVars, owner>>

Processes ==
  \/ \E p \in network.programs : UsePort(p)
  \/ ReadTable
  \/ ResolveTable

-----------------------------------------------------------------------------
(***************************************************************************)
(* The UI thread.                                                          *)
(***************************************************************************)
\* A result of the geo thread, or the end of them.
DrainGeo ==
  /\ DrainResult \/ FindNoResult
  /\ UNCHANGED <<network, limit, loopVars, captureVars, processVars>>

\* (bug) An address that is heard again gets a new entry.
HearNext_Replace ==
  /\ ui = "packets" /\ stage = "hear" /\ heard # <<>>
  /\ passive' = IF Head(heard) = Local THEN "dash" ELSE passive
  /\ heard' = Tail(heard)
  /\ UNCHANGED <<vars, network, limit, stage, taken, count, limit_reached,
                 channel_alive, shown, capture, in_hand, packets, processVars>>

\* A pair of the passive channel; that of an address outside is dropped. An
\* address that has an entry keeps it.
HearNext ==
  /\ ui = "packets" /\ stage = "hear" /\ heard # <<>>
  /\ passive' = IF Head(heard) = Local /\ passive = "none" THEN "dash" ELSE passive
  /\ heard' = Tail(heard)
  /\ UNCHANGED <<vars, network, limit, stage, taken, count, limit_reached,
                 channel_alive, shown, capture, in_hand, packets, processVars>>

\* Packets are taken until the limit of the --limit argument was reached once
\* or the capture thread was found gone.
HeardAll ==
  /\ ui = "packets" /\ stage = "hear" /\ heard = <<>>
  /\ stage' = IF channel_alive /\ ~limit_reached THEN "ingest" ELSE "keys"
  /\ taken' = 0
  /\ UNCHANGED <<vars, network, limit, count, limit_reached, channel_alive,
                 passive, shown, captureVars, processVars>>

\* The program a packet of the traced port is attributed to.
Attributed == IF process_cache = NoProgram THEN "unknown" ELSE process_cache

\* What a packet does to the loop's tables when the feed is not paused: asks
\* for its addresses, gives its connection a program unless it has a known
\* one, and names the device it names if that has an entry without a name.
Show(pkt) ==
  /\ ShowPacket(pkt.dst, pkt.src)
  /\ shown' = IF pkt.by # NoProgram /\ shown \in {"none", "unknown"}
                THEN Attributed ELSE shown
  /\ passive' = IF pkt.names /\ passive = "dash" THEN "named" ELSE passive

\* (bug) The turn has no limit.
Ingest_NoLimit ==
  /\ stage = "ingest" /\ packets # <<>>
  /\ packets' = Tail(packets)
  /\ IF paused THEN UNCHANGED <<vars, shown, passive>> ELSE Show(Head(packets))
  /\ taken' = 0
  /\ count' = IF limit = NoLimit THEN 0 ELSE count + 1
  /\ limit_reached' = (limit # NoLimit /\ count' >= limit)
  /\ stage' = IF limit_reached' THEN "keys" ELSE "ingest"
  /\ UNCHANGED <<network, limit, channel_alive, capture, in_hand, heard, processVars>>

\* (bug) The limit stops the loop one packet late.
Ingest_PastLimit ==
  /\ stage = "ingest" /\ packets # <<>> /\ taken < MaxPerTurn
  /\ packets' = Tail(packets)
  /\ IF paused THEN UNCHANGED <<vars, shown, passive>> ELSE Show(Head(packets))
  /\ taken' = taken + 1
  /\ count' = IF limit = NoLimit THEN 0 ELSE count + 1
  /\ limit_reached' = (limit # NoLimit /\ count' > limit)
  /\ stage' = IF limit_reached' THEN "keys" ELSE "ingest"
  /\ UNCHANGED <<network, limit, channel_alive, capture, in_hand, heard, processVars>>

\* A packet of the channel.  It is logged and counted in any case (without a
\* limit nothing reads the count, which stays 0 here).
Ingest ==
  /\ stage = "ingest" /\ packets # <<>> /\ taken < MaxPerTurn
  /\ packets' = Tail(packets)
  /\ IF paused THEN UNCHANGED <<vars, shown, passive>> ELSE Show(Head(packets))
  /\ taken' = taken + 1
  /\ count' = IF limit = NoLimit THEN 0 ELSE count + 1
  /\ limit_reached' = (limit # NoLimit /\ count' >= limit)
  /\ stage' = IF limit_reached' THEN "keys" ELSE "ingest"
  /\ UNCHANGED <<network, limit, channel_alive, capture, in_hand, heard, processVars>>

\* (bug) A channel without sender is taken for an empty one.
StopIngest_AnyEmpty ==
  /\ stage = "ingest"
  /\ taken = MaxPerTurn \/ packets = <<>>
  /\ stage' = "keys"
  /\ UNCHANGED <<vars, network, limit, taken, count, limit_reached, channel_alive,
                 passive, shown, captureVars, processVars>>

\* (bug) The end of the capture thread is looked for before the channel.
StopIngest_SenderFirst ==
  /\ stage = "ingest"
  /\ taken = MaxPerTurn \/ packets = <<>> \/ capture = "stopped"
  /\ stage' = "keys"
  /\ channel_alive' = (capture = "running")
  /\ UNCHANGED <<vars, network, limit, taken, count, limit_reached,
                 passive, shown, captureVars, processVars>>

\* Enough for a turn, or nothing to take: the channel is empty, and found
\* without sender when the capture thread is gone.
StopIngest ==
  /\ stage = "ingest"
  /\ taken = MaxPerTurn \/ packets = <<>>
  /\ stage' = "keys"
  /\ channel_alive' = (taken = MaxPerTurn \/ capture = "running")
  /\ UNCHANGED <<vars, network, limit, taken, count, limit_reached,
                 passive, shown, captureVars, processVars>>

\* Draw, and handle the keys there are.
Keys ==
  /\ stage = "keys"
  /\ EndTurn
  /\ stage' = "hear"
  /\ UNCHANGED <<network, limit, taken, count, limit_reached, channel_alive,
                 passive, shown, captureVars, processVars>>

UiTurn == DrainGeo \/ HearNext \/ HeardAll \/ Ingest \/ StopIngest \/ Keys

-----------------------------------------------------------------------------
UiNext ==
  \/ UiTurn
  \/ Capture
  \/ Processes
  \/ GeoThread /\ UNCHANGED <<network, limit, loopVars, captureVars, processVars>>

\* The threads of the program go on; the network need not.
UiFairness ==
  /\ WF_allVars(UiTurn)
  /\ SF_allVars(HeardAll)
  /\ WF_allVars(SendPacket)
  /\ WF_allVars(GeoThread /\ UNCHANGED <<network, limit, loopVars, captureVars,
                                         processVars>>)

\* The passive channel has no limit to a turn.  That the loop finds it empty again
\* and again is an assumption about the network: pairs, which cost the loop one
\* look at a map, come more slowly than it takes them.  Nothing is assumed of packets.
PairsAreTaken == []<>(stage # "hear" \/ heard = <<>>)

UiSpec == UiInit /\ [][UiNext]_allVars /\ UiFairness /\ PairsAreTaken

-----------------------------------------------------------------------------
(***************************************************************************)
(* Properties, besides those of GeoLookup.                                 *)
(***************************************************************************)
\* The keys are read again and again however many packets come: a turn ends
\* after MaxPerTurn of them (main.rs:293-297).
KeysServed == []<>(stage = "keys")

\* That the capture thread is gone is shown in the end, unless the limit was
\* reached first: packets that come faster than they are taken do not hide it.
CaptureEndShown == capture = "stopped" ~> (~channel_alive \/ limit_reached)

\* It is shown only after every packet the thread had sent was taken.
EndIsLast == ~channel_alive => capture = "stopped" /\ packets = <<>>

\* Packets are counted whether the feed is paused or not, and with a limit
\* exactly as many are taken as it says (one where it says none).
LimitIsExact ==
  limit # NoLimit =>
    /\ count <= IF limit = 0 THEN 1 ELSE limit
    /\ limit_reached <=> (count > 0 /\ count >= limit)

\* The name a DHCP request gave a device stays, whatever is heard of the
\* device afterwards and in whichever of the two channels.
NameStays == [][passive = "named" => passive' = "named"]_allVars

\* README: "Each connection is traced back to the Windows process (full executable
\* path) that owns it".  A connection gets the name of a program that owned its port
\* when the packet was captured, or owns it when the packet is shown, or none.
TracedToOwner ==
  [][shown' # shown => shown' \in {"unknown", owner, Head(packets).by}]_allVars
=============================================================================
