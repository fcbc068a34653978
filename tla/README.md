# VORA-Recon: specifications and proofs

TLA+ models of VORA-Recon, TLC runs that check them on small instances and TLAPS
proofs of the properties that matter most. Paths are those of the repository:
`discovery.rs:1345` is line 1345 of `src/discovery.rs`.

    tlc -config MCDiscoveryDevices.cfg MCDiscovery.tla     # one run
    tlapm DiscoveryProofs.tla                              # one module of proofs

## 1. The system

VORA-Recon is one process with one UI thread and a handful of workers.

| component | state it keeps | operations | talks to |
|---|---|---|---|
| UI loop, `main.rs` 202-566 | `AppState` | drains every channel, ingests at most 1000 packets a turn, draws, reads keys | every other thread, by unbounded channels and shared maps |
| capture thread, `capture.rs` | none | parses frames, sends packets and heard (MAC, address) pairs | UI loop |
| discovery thread, `discovery.rs` 1275-1413 | `pending_scan`, cancel flag, the working map of the scan | serves `ScanNow` requests one at a time | UI loop by three channels; spawns the next two |
| sync thread, one per scan, 1345-1381 | none | copies the working map to the shared list every 200 ms, once more after its stop flag | shared list |
| enrichment thread, one per scan, 2630-3247 | its probes' results | names devices, saves the baseline again; tests the cancel flag at seven points | working map, baseline file |
| passive mDNS listener, one per scan, 1826-1876 | what it heard | timed reads until its stop flag | enrichment thread |
| baseline store, 1188-1250 | one JSON file per network | `save_baseline` replaces it, `load_baseline` reads it at the start | discovery and enrichment threads |
| geo thread, `geoip.rs` 24-78 | none | asks ip-api.com for one address after the other | UI loop by two channels |
| process cache thread, `process.rs` | map (port, protocol) to path | adds ports it does not know, every second | UI loop reads the map |
| packet ingestion and alerts, `display.rs` 433-1115 | counters, sets of what was alerted, four alert lists, three feed buffers | `ingest_packet`, `push_alert`, `clear_alerts`, `whitelist_ip` | called by the UI loop |
| feed, filters, scrolling, panels, `display.rs` 1521-1622 | offsets, filters, the focused panel | keys | called by the UI loop |
| radar, OS fingerprints, categories, vendors | layout, scores, tables | pure or per packet | called by the UI loop and the scan |
| parsers, `packet.rs`, mDNS part of `discovery.rs` | none | DNS names and answers, TLS hello, DHCP options, HTTP host | capture thread, probes |
| report, log, launcher | files | `E` key; one line per packet; starts the console | |

### What is hard here, and what would make it correct

* **Four threads write or delete in three maps.** The sync thread deletes from
  the list the UI shows whatever its working map lacks. A listed device must
  stay listed, and all a scan found must be in the list when its map is dropped.
* **A request may come at any point of a scan.** It cancels the enrichment, is
  kept in a boolean, and more may wait in the channel. None may be lost or served
  twice; a scan must end whatever comes.
* **Two threads save one file**, which is replaced in place, and the only end of
  the program is being killed. The saves may not overlap, a save may not
  forget what the session shows, and what was reported must be there after the
  next start if it was saved. Nobody is told that a save failed.
* **Names arrive from many sources in any order.** A placeholder may not replace a
  name, and none may stay for ever.
* **Slots for lookups** are taken and given back in different threads' turns; one
  lost slot in five would stop lookups for good.
* **Caches that mark work under way** (`Looking up...`, the alerted sets, the
  process cache) are right only while every path updates them.
* **Limits** (2000 entries, 20 time stamps, 1000 packets a turn) and offsets into
  lists that grow under the reader.

`PROJECT.json` lists each of these at its line, with the properties that cover it.

## 2. Modules

| module | what it is |
|---|---|
| `DeviceMap` | the device maps and the rules that write them, as operators |
| `Discovery` | UI loop, discovery, sync and enrichment threads, file: the core |
| `ScanService` | what discovery promises: requests served one by one, a list that grows during scans |
| `MCDiscovery` | symmetry and a view for the runs of `Discovery` |
| `DeviceMapProofs` | lemmas about the operators of `DeviceMap`, for the two below |
| `DiscoveryProofs` | theorems about `Discovery` and, over restarts, about `Sessions` |
| `Sessions`, `MCSessions` | `Discovery` killed at any point and started again |
| `GeoLookup` | UI loop and geo thread around the cache and the slots |
| `UiLoop`, `MCUiLoop` | a whole turn of the UI loop: on top of `GeoLookup`, with the capture thread in front and the process cache beside it |
| `UiLoopProofs` | theorems about `GeoLookup` and about `UiLoop` |
| `ScanProbes`, `MCScanProbes` | the threads inside a scan that `Discovery` takes for single steps, on top of `DeviceMap` |
| `ScanProbesProofs` | theorems about `ScanProbes` |
| `Listing` | what a panel that shows a list in order has in common: line numbers, what passes a filter |
| `Feed` | the three packet buffers, their filter, the reader's offset |
| `AlertPanel` | the four alert lists, their filter, the reader's offset |
| `DeviceList` | the list of discovered devices: its filter, its lines, the reader's offset |
| `Radar` | the nodes of the radar: their age, the host, who is on the rings, the selection |
| `Panels`, `MCPanels` | the three panels and the radar under a reader |
| `PanelsProofs` | theorems about `Panels`, and with it about `Feed`, `AlertPanel`, `DeviceList` and `Radar` |
| `Alerts`, `MCAlerts` | what the UI loop does with a packet: on top of `AlertPanel`, with an instance of `Feed` |
| `AlertsProofs` | theorems about `Alerts` |
| `OsTags`, `MCOsTags` | the operating system of a device: guesses, DHCP requests, and what a view shows |
| `OsTagsProofs` | theorems about `OsTags` |
| `DnsMessage` | the parser of DNS responses, byte by byte, and the grammar it should follow |
| `Payloads`, `MCPayloads` | every UDP payload that is read: on top of `DnsMessage`, the options of DHCP messages |
| `PayloadsProofs` | theorems about `DnsMessage` and `Payloads` |

Operators whose comment begins with "(bug)" are the code with one plausible
mistake. Nothing uses them: they stand beside the definition they vary, and for
each property one of them, put in its place, makes TLC report the property violated.

### Discovery

*State.* `active` is `state.active_discovery`, the list the UI shows; `passive` is
`passive_discovery`; `active_dash`, `passive_dash` and `new_map` are the maps of
the same names inside one scan. A `DeviceInfo` is reduced to its hostname, one of
`"resolving"` (the text `Resolving...`), `"dash"` and `"named"`, and whether
`miss_count` is above zero: no branch of these components looks at more, MACs
excepted (below). `dpc`, `spc` and `bpc` are the places in the three threads.
`signals` and `ready` count the messages of two channels, whose payload is constant
or text. `disk` is what the file holds, with `torn` while it does not parse; `unsaved` is
history: the save before the last report failed.

*Actions.* One for each stretch of code between two points where another thread
could interfere: a critical section, a send or receive, a test of a flag. What the
network answers is a set of devices chosen by the step: those in the ARP table,
those that reply to the sweep, those whose name is heard. Their kinds matter:
`Resolvable` is what `should_resolve_hostname` accepts (169.254.0.0/16 is refused),
`Fe80` the addresses the save may leave out.

*Abstractions.* A pass of the sync thread is one step: it holds the lock of the
list, and entries the enrichment writes during the pass are in the next. A pass of
a scan over its working map is one step, since the other thread that reads it does
so entry by entry into a map nobody compares with it. `HearDhcpHostname`
takes two locks in the code and one step here; a scan copies `passive` first
and `active` second, so the step in between shows it nothing new. The save leaves
out an fe80 entry when an IPv4 entry has its MAC: MACs are not modelled, so a
save leaves out any subset of the fe80 entries. A save is carried out (`Truncate`, `Fill`),
or fails (`Fail`): without APPDATA (`discovery.rs:1209`) or when the file cannot be opened the
file stays as it was, and a write that breaks off leaves one that does not parse. The result is
ignored (1221) and the thread goes on as after a save, so a report may be sent over an old or
a broken file (`FailEarly`). Any save may fail, and `load_baseline` may: a run begins with what
the file holds, or with nothing (`Init`). The probes of SSDP and DHCP
inform write metadata only and change nothing the model keeps. The timers
(180 s, 200 ms, 50 ms) may expire at any time.

*Fairness.* Weak fairness of each thread: the operating system schedules them and
every wait in them is timed (sockets, `recv_timeout`, 500 ms reads of the listener).
Weak fairness of draining the Ready status: the UI loop drains the channel
on every turn. None of the keys, timers and packets is fair.

### Sessions

`Continue` is a step of `Discovery`; `Restart` ends the process in any state (there
is no key that quits) and gives every variable its first value, `baseline_ips` what
`load_baseline` reads. A file that was truncated and not filled does not parse, which
`load_baseline` takes for an empty one (`discovery.rs:1245`), as it does a file that cannot be
read; `readable` says whether this run could read it. `reported` is history: the devices of
the last report whose save was carried out.

### GeoLookup

*State.* `geo_cache` without the text: no entry, the placeholder, an answer with a
country, an answer without. `req`, `asking` and `res` are the three places of
a lookup: request channel, geo thread, result channel. `ui` is the part of the turn,
because the loop drains results and shows packets in turn.
*Actions.* `ShowPacket` asks for the destination, then the source, testing the limit
before each, as the loop over both addresses does. `Respond` is the end of the HTTP
request, success or failure. *Fairness.* The loop goes round (`UiLoop` shows when) and
the request has a timeout of three seconds. No run checks `GeoLookup` by itself:
`UiLoop` has the same variables and actions, and its packets come from a channel.

### UiLoop

*State.* A turn drains the geo results (`ui = "drain"`), hears the passive channel
(`stage = "hear"`), takes packets (`"ingest"`), draws and handles keys (`"keys"`).
`taken`, `count`, `limit_reached` and `channel_alive` are the loop's variables of
nearly the same names. `heard` and `packets` are the two channels of the capture thread,
which tells the source of a frame before it sends the packet: `in_hand` is the
packet in between. `passive` is the entry of one local device, and `shown`
the program of one traced connection, with `owner`, `table` and `process_cache` for who has
its port, what the process thread read, and what it keeps.
*Actions.* A frame (`Parse`, `SendPacket`), an ARP reply (`HearArp`), the end of the capture
thread; the two halves of the process thread's refresh, between which the port may change
hands; one action for each pair, packet and end of a drain. `Ingest` is the branch of a
packet: logged and counted in any case, shown unless paused, with the `break` at the limit.
*Situations.* `Network` lists what the network and the programs of the machine may do;
a behaviour is in one of them from its beginning to its end, because their variables
do not meet. *Bounds.* Both channels are unbounded in the code; `queue` bounds them in
a run only, and makes the capture thread wait where the code would let them grow; at
the bound a pair of an address that waits already is left out (`Tell`), so that a full
passive channel does not keep packets from coming.
*Fairness.* The threads go on (`UiTurn`, `SendPacket`, the geo thread). Nothing is assumed
of packets, whose drain ends after 1000 of them (`main.rs:295`). The drain of the passive
channel (`main.rs:247`) has no such limit, so `PairsAreTaken` assumes that the loop finds
it empty again and again; `SF(HeardAll)` then lets it see so.

### ScanProbes

*State.* `at` is where one scan is: the ARP sweep, the pool that wakes stale addresses, the
pool that probes, the lookups of fe80 addresses and then of the others. The sweep has a
`clock` up to `Window` (three seconds); `asked` says when a request left, and a device
replies within `Latency`. A pool has its queue `ips`, what each worker `holds`, and the
channel `result_tx`. For the lookups `mac` is the IPv4 address with the MAC of an fe80
address, `answer` what a thread sent and `drained` whom the enrichment waited for.
*Actions.* One for each lock, send and receive. `Drained` is what the branch for a received,
or given up, answer does to the list, the counterparts of the MAC included.
*Abstractions.* One subnet; requests leave in the order of the addresses, one in a unit of
time. The next phase begins where the former one ends, and what a phase kept in local
variables is forgotten then. The scan is not cancelled: `Discovery` has the cancellations,
and takes each of these phases for one step with any outcome. `LookupsAreOneStep` says
that for the lookups this is no loss: whatever the threads did is an outcome of
`Looked`, the operator both modules use. *Fairness.* Every wait is timed: reads of the
receiver, replies to probes, the lookups.

### Feed, AlertPanel, DeviceList, Radar, Panels

*State.* In the panels, a buffered packet is the number of its arrival, which is also
its time; an alert is its time, rule, tier and the addresses its message names. `*_scroll` counts
lines from the newest, `*_paused_scroll` says whether the reader is back.
*Actions.* The end of `ingest_packet` (`IngestPacket`), `push_alert`, `clear_alerts`,
the removal in `whitelist_ip`, and the keys. `Visible` is what `draw_feed` and
`draw_alerts` show: the merged or filtered list, the clamped offset, the rows.
`DeviceList` is `draw_local_devices`: an address is a number in the order of Rust's
`IpAddr`, a device is what the filter tests of it, and `Lines` is the list with its
subnet headings and blank lines, given by line numbers: `Headings` says on which line
a subnet begins. `SyncDevices` is one pass of the sync thread, which only
ever adds or changes entries (`DevicesNeverVanish` of `Discovery`). A frame drawn while
that thread holds the lock shows the status line alone and is not in the model.
`Radar` is what `ingest_packet` does to `graph_nodes` (`MeetPacket`, `WithHost`), the layout
(`UpdateRadarLayout`: the host is refreshed, silent nodes expire, the rings are chosen), and
the keys G, N and Esc. Ages are capped at `NodeAge`, above which nothing tells them apart;
of a label only who shares it matters, as the rings show one node of each label; where on
a ring a node is drawn, the sweep line and its echoes are left out.
The three panels and the radar share no variable. `Panels` therefore lets a behaviour
exercise the one that has the focus, and the behaviours are in its state graph side by side
instead of multiplied; the Tab key is left out for the same reason.

### Alerts

*State.* The maps and sets of `AppState` by their names; `log` and `raised` are history.
A packet is a record of what the branches test: addresses, protocol, ports, TCP flags,
whether the process table names a trusted program, the addresses a DNS answer
names, and whether the name is that of one of the program's own lookup services.
*Actions.* `IngestPacket` is the whole of `ingest_packet`, in its order: names, the
counters, the three detectors, the whitelist test, rules 1 to 4, the exemption of
the lookup services, the leaks and rules 5 and 6, the feed. Detectors run before the
whitelist is asked and rule 5 after the exemption: the order is in the definition of
`as`, `listed` and `shown`. `Wait` lets time pass.

*Abstractions.* Time is a whole number of units, and a packet takes none. Counters that
are only displayed are left out. `pair_packet_counts` saturates at the limit, above
which nothing tells its values apart. The test of a beacon (standard deviation below
a fifth of the mean) is squared and multiplied out: with n gaps of sum S and sum of
squares Q, `sqrt(Q/n - (S/n)^2) < S/(5n)` is `25 n Q < 26 S^2`. What the
GeoIP cache says of a destination (a trusted organisation or not) is chosen by the step.
*Scaled constants.* The limits of the code (5 responses in a second, gaps of 4 seconds,
6 stamps of 20, 25 ports, 500 packets, 2000 alerts) are constants of the module. The
runs give them values of two to five, which keeps what matters between them: more stamps
are kept than judged, a heartbeat is longer than the gap that ends an attempt, a
burst of twice the limit fits into a run.

*Situations.* A constant, `Traffic`, lists what may come from outside: packets, gaps,
keys. A behaviour is in one of the situations from its beginning to its end.

### OsTags

*State.* `os_fingerprints`, `dhcp_fingerprints`, `active_discovery` and
`device_metadata` by their names, of each text the class the code's tests put it in
(a vendor by the first test that accepts it, a fingerprint by what `classify_dhcp`
returns). No entry in `os_fingerprints` is `[?]` with confidence 0, which every
branch treats alike. `guessed`, `requested` and `moved` are history.
*Actions.* `IngestPacket` is `update_os_fingerprint` and the DHCP block of the UI loop,
which handle the same packet one after the other; whether the list is locked by the sync
thread at that moment is chosen by the step. `PublishDevice` and `PublishMetadata` are
what the sync thread's pass does to one address. `get_resolved_os_tag` writes nothing and
is an operator; its parameters say which of the two locks the caller leaves free.

### DnsMessage

*State.* The local variables of `parse_dns_answers` and `read_dns_name`, indexed from 0;
`pc` names the loop. A label or an address is where it starts and how long it is: the
text plays no part. *Actions.* One turn of one loop, with its early returns (`GiveUp` is
`?` or `return None` on a name, `Finish` a `break`). `reach` is the end of what was read.
*Reference.* `Said` reads the same bytes by the grammar: recursive functions over
positions, which know nothing of offsets, jumps or loops.
*Scaled constants.* Fields of several bytes are one byte, a header is one, a record two,
an address one or two. The bytes of a header are any bytes and the counts in it are
chosen separately, so a pointer into the header meets every value.

### Payloads

*State.* `ports` is which of the parsers gets the payload: that of DNS, those of a DHCP
request (68 to 67: two walks over the options, one for the system and one for name
and address), that of a DHCP answer (67 to 68: the first walk only), or that of the reply
to the scan's own probe (`dhcp_probe.rs`). Of a DHCP message, `data` are the options; `op`,
`valid` (length, magic cookie, for a probe the xid) and `ciaddr` are the fixed fields that
are looked at. *Actions.* One turn of a walk: padding, an option, the end. `Takes` says
which options are kept. *Reference.* `OptionsAt` reads the bytes by the grammar: the set of
the positions at which options begin, of which the first or the last of a kind counts.
*Fairness.* The parsers are loops in one thread.

## 3. What the runs check

| run | bounds | distinct states | shows |
|---|---|---|---|
| `discovery_devices` | 2 devices, 2 scans, symmetric | 2.8 million | the list, the working map and the file agree, whichever saves fail: `PublishedIsKnown`, `ScanIsPublished`, `OneWriter`, `DevicesNeverVanish`, `SavesKeepSession`, `ReadyIsSaved` |
| `discovery_requests` | 1 device, 3 scans | 241 thousand | requests and lookups: `RequestsConserved`, `EveryRequestServed`, `LookupsSettle`, `ScanKeepsNames`, and `PromiseKept`: the threads implement `ScanService` |
| `sessions` | 1 device, 2 scans, 2 runs of the program | 617 thousand | `ReportedSurvives`: what was saved and reported is known to the next run that can read the file, unless the last write was cut short |
| `ui_loop` | 3 addresses, 2 slots; turns of 2 packets, channels of 1 or 2, `--limit` of none, 0, 1 and 3; 2 programs | 124 thousand | lookups: `SlotsAreExact`, `PendingIsAsked`, `LookupsSettle`; the turn: `KeysServed`, `LimitIsExact`, `EndIsLast`, `CaptureEndShown`; `NameStays` |
| `scan_probes` | 3 IPv4 and one fe80 address, 2 workers, a window of 3, replies within 1 | 614 thousand | `FoundInTime`, `ProbedOnce`, `Fe80Named`, `LookupsAreOneStep`, `PhasesEnd` |
| `panels` | 6 packets, 4 alerts, buffers of 2, 2 rows; three IPv4 devices of two subnets and an IPv6 one, 3 rows; 5 addresses on the radar, 2 packets, an age of 1, rings of 1 | 400 thousand | `ReadersKeepPlace`, `DevicesInReach`, `HostStays` |
| `alerts` | 3 addresses, 3 to 6 packets in four situations | 401 thousand | each detector is exact up to what its comment promises: `LimitsReported`, `FloodReported`, `HeartbeatReported`, `OutboundReported`; `AlertedOnce`, `WhitelistHolds` |
| `os_tags` | 1 address, 4 packets of each guess, confidences up to 4 | 537 thousand | `ConfidenceEarned`: no confidence is inherited; `TagSettles`: the tag kept of an address stops changing |
| `payloads` | DNS: all messages of at most 5 bytes, and four beginnings with all ends of at most 5, of 4 byte values; DHCP: all options of at most 5 bytes, of 5 values, alone and behind a name, a list of parameters or an address | 1.1 million | `ReadsInside`, `SaysWhatItSays`, `OptionsAreRead`, `PayloadsHalt` |

Two scans are enough for the file and the maps: a third meets what the second
met, one scan that ended or was cancelled. Requests need three: one under way,
one postponed, one in the channel. Two devices show a scan that finds one and misses
the other. The runs of `Discovery` take states for one that differ in `fresh_scan_done` and
`baseline_ips` only (`Unmarked`, a `VIEW`): no guard and no property of these runs reads them,
no other variable gets its value from them, and the step that writes them takes a message, so
nothing is hidden; the runs about markers and restarts do without. In a restart one device can
be reported by one scan and missed by the next.
Two slots make the limit bite between the two addresses of one packet, and three
addresses leave one without a slot. In `ui_loop` a channel of two and a turn of two let a
turn end at its limit with a packet left and with none, and three packets of a limit are
counted over two turns. In `scan_probes` the third request leaves too late for its reply to
be sure, the first two in time; two workers with three targets leave one idle; one
fe80 address is awaited before, and named by, either kind of counterpart. Six packets
fill a buffer of two three times over while the reader is at any line; two packets on the
radar give another address than the host more packets than the host has (their size plays no
part in which nodes stay, and is one value). A feed of a single row is the case
`FeedKeepsPlace` excepts: there the notice takes the row the packet would have. In `alerts` a
situation has as many packets as its detector needs to be set off, plus one or two before
and after. In `os_tags` a guess can pass the confidence of a DHCP request (3 for 200) and
reach the largest one (4 for 255); addresses do not interact, so one is enough. The
beginnings of the DNS messages are a question, a compressed one, a cyclic one, and one with
an answer, and are followed by everything that fits; five bytes hold two options, or
one with padding before and an end behind.

Types are not among the invariants of the runs: those of `Discovery`, `GeoLookup`,
`UiLoop`, `OsTags` and `ScanProbes` are proved (section 4). `CHECK_DEADLOCK FALSE` is
set in `alerts`, where a run ends when its packets were sent, and in `scan_probes`, where it
ends with the scan; elsewhere a program that cannot move would be reported. The proofs
below hold for all bounds and for devices of every kind.

### Disagreements found while modelling

Each run checks one sentence of a doc or a comment, which the code does not keep.

| run | sentence | what happens |
|---|---|---|
| `marked_before_accepted` | README: "any device not seen before is marked [NEW]" | devices published before Ready is drained are taken for known unmarked |
| `os_panel` | `display.rs:1268`: the tag is resolved "applying MAC vendor overrides" | the device list holds the lock the function tries, so the vendor is never asked; the radar, which does not, shows another tag |
| `stale_owner` | README: "Each connection is traced back to the Windows process (full executable path) that owns it" | a port in the cache is never looked up again (`process.rs:22`): who takes it over is shown under the name of its former owner |

Seen while modelling and visible in the definitions, without a run of their own:

* A name that a DHCP request gives a listed device is not in the working map of a scan that
  runs: its next pass overwrites it, although README says such names are captured "as they
  happen". A device in neither map yet is not named at all (`HearDhcpHostname`).
* The gap that ends a connection attempt (`display.rs:632`) is measured from the last packet
  *recorded*, so a steady stream counts as attempts (`DetectBeacon`), and one packet between
  two heartbeats, more than the gap after the first, hides them: `HeartbeatReported` is about
  heartbeats of which each may be a burst no longer than the gap.
* Whoever has a port first gives a connection its name for good even if the cache learns
  better, since only `unknown` is replaced (`display.rs:566`), and the key of a connection
  has no source port: two programs that talk to one server share an entry (`Show`).
* "the UI remains prioritized under extreme load" (`main.rs:294`) holds for packets; the
  drain of the passive channel before it has no limit (`HearNext`, `PairsAreTaken`).
* `--limit 0` takes one packet: the limit is compared after counting (`LimitIsExact`).
* After `--limit` the packets are left in a channel that grows until the end (`HeardAll`).
* The sender of the ARP sweep is not tied to the three seconds its receiver listens: in a
  large subnet the hosts asked last are missed (`FoundInTime` has the condition), and
  a subnet of more than 65536 hosts is skipped (`discovery.rs:1529`), although README says
  all reachable hosts are discovered.
* A DHCP message from port 67 to 68 can have no fingerprint: servers send replies, and
  `parse_dhcp_fingerprint` accepts requests only (`packet.rs:147`, `Header`).
* The host of the radar is chosen once: a source that turns out to be "most frequent"
  (`display.rs:1057`) later is not looked at (`WithHost`). N selects nodes that
  are on no ring, and a selected node that expired stays selected (`SelectNext`).
* `is_public_ip_heuristic` calls 0.0.0.0 and 169.254.0.0/16 public (`main.rs:573`).
* README lists a `Q` key that quits; no branch handles it.
* `save_baseline` replaces the file by the devices of the session (`discovery.rs:2602`),
  while `baseline_ips` keeps those loaded at the start: a known device that is away for
  one session is forgotten, although `main.rs:232` counts on the file (`FillEarly`).
* A program killed between the truncation and the filling of the second save, or whose
  write broke off, starts with an empty baseline, although the first save had written one
  (`Restart`, `torn`).
* A save that fails is noticed by nobody: Ready is sent over the old or the broken file
  (`FailEarly`), and the devices it reports are new again after the next start.
* An external address met while five lookups are outstanding is skipped and not
  remembered (`Lookups`), although the README says all are resolved.
* The inventory of the report holds both locks while it asks for a tag (`main.rs:692`), the
  summary of the same report holds none (`main.rs:634`): they may name different systems.
* A guess `[Mac]`, which every Apple device gets from its vendor, is refined by no host name
  and no model: only `[Lin]`, `[Net]`, `[And]` and unknown are (`get_resolved_os_tag`).
* A DHCP request counts for what is shown even when the stored tag ignores it for its
  confidence (`Requested`, `get_resolved_os_tag`): of a device whose requests differ the
  shown system changes with each of them, for ever. `TagSettles` is about the stored tag.
* A response that is cut off inside a record keeps the addresses before it (`Finish`),
  although `packet.rs:264` says a malformed one gives nothing; one cut off inside a name
  gives nothing (`SkipOutside`).
* The flag that cancels an enrichment (`discovery.rs:1390`, "immediately") is read at
  seven points; after the last one the enrichment runs to its end (`Proceed`, `Abort`).
* A 169.254.0.0/16 device found by the ARP sweep keeps its placeholder: the retry
  (`discovery.rs:2615`) excludes it. `LookupsSettle` is about `Resolvable` devices.
* A burst of less than twice the limit that lies in two windows is not reported
  (`display.rs:599`), although it is above the limit; `FloodReported` states what is.
* The ports of a source that was reported are forgotten and collected again
  (`display.rs:724`), without a limit from then on (`DetectScan`).
* `whitelist_ip` removes the alerts whose message contains the text of the address
  (`display.rs:1111`): 10.0.0.1 removes those about 10.0.0.11 (`Within`).
* `scroll_up` of the feed has no limit (`display.rs:1563`) while the other panels have
  one; above what the panel can show, Down keys change nothing for as many presses.
* The limit of the device list (`display.rs:1580`) counts devices while the list also has
  a heading and a blank line for every subnet, and the `[PAUSED]` notice takes its last
  row. With more subnets than half the rows of the panel the topmost devices cannot be
  brought into view, which is why `DevicesInReach` has a condition.

## 4. What is proved

All theorems hold for every value of the constants under the assumptions named in
the modules: `DeviceAssumption` (the kinds of addresses are sets of devices, fe80
addresses are looked up, `Absent` is not an entry), `MaxRequestsAssumption`,
`GeoAssumption` (at least one slot, the markers are not addresses), `UiAssumption` (a turn
takes at least one packet, the situations are situations, the markers are none of what they
stand beside), `ProbesAssumption` (addresses are numbers and finitely many, the markers of
a worker are not addresses), `AlertAssumption` (situations are situations, limits are
positive, private addresses are local), `OsTagsAssumption` (the
confidence of a request is at least 2 and at most the largest one), `PanelsAssumption`
(rows, caps and buffers are positive, there are finitely many devices),
`DnsMessageAssumption` (messages are sequences of bytes, the fields of a record lie in it,
there is a header, and 0 is no pointer) and
`PayloadsAssumption` (options are sequences of bytes, the codes that are read are not 0).

**`DiscoveryProofs`.** No property of the maps or the file is inductive alone: each
depends on which threads a place of the discovery thread leaves running.
`ThreadControl` says so (the enrichment runs between `Announce` and `JoinBg` only,
the sync thread from `SnapshotActive` to `JoinSync`, a request is postponed only when
the poll loop was left) and is proved first, with `TypeOK`. From it follow
`OneWriter`; `PublishedIsKnown`, because the working map only grows while the sync
thread runs; `DevicesNeverVanish` from that; `ScanIsPublished`, because after the last
pass nothing writes the working map; `RequestsConserved`; `SavesKeepSession` and
`ReadyIsSaved`, the latter with `SavedBeforeReady` (nobody adds a device between a save
that was carried out and the status); `ScanKeepsNames`; `LookupsSettle`, with `Awaited` (every
placeholder of the working map is in the snapshot of devices to look up until the
lookups ended). `PromiseSafe` is the refinement: every step is a step of
`ScanService` or a stutter.

For `Sessions`: a restart begins in an initial state, so the invariants of a run
hold over all runs. What links them: a reported device is in the map the next save is
made from (the list between scans, the working map during one), and so in the file
after every save that is carried out; one that is refused leaves the file as it was, and one
that breaks off leaves it torn, until a later save is carried out.

**`UiLoopProofs`.** First, for `GeoLookup`: the three places of a lookup, read from the oldest to the
newest, form one line (`Line`). The geo thread moves a lookup along it and leaves it
the same, draining takes its first element off, a packet appends one or two. The
slot counter is its length (`SlotsAreExact`); its elements are pairwise different
and are the addresses that show the placeholder (`PendingIsAsked`), which gives
`AnswersStay`: an answer is never replaced.

For `UiLoop`, `GeoStep`: every step of `UiLoop` is a step of `GeoLookup` or changes
none of its variables, so `Line` and what follows from it hold with the channels and the
limits in the way (`UiSlotsAreExact`, `UiPendingIsAsked`). `LimitIsExact` and
`EndIsLast` follow from `Intake`: packets are taken only while the limit
was not reached and the channel was not found dead, and a capture thread that
ended holds no packet. `NamesStay` is a case analysis over the steps.

**`ScanProbesProofs`.** `FoundInTime` needs `Hearing`: the receiver listens until the window is
over, no reply is later than its latency, and a reply was heard unless its request
left too late. `ProbedOnce` is inductive with the types and rests on lemmas about sequences
(`TailShift`, `AppendKeeps`). `Fe80Named` and `LookupsAreOneStep` share `LookupInv`: an
entry of the list is what it was before the lookups, or had no name then and has got
one, or was waited for in vain and lost its placeholder; and a name an IPv4 address
got has reached the fe80 addresses of its MAC.

**`DeviceMapProofs`.** The operators of `DeviceMap` give maps of devices; both modules
above that use them cite it.

**`OsTagsProofs`.** `ConfidenceEarned` is inductive with the types. `TagSettles` is not:
`Settled` adds that a tag that moved has the confidence of a request, which is
more than any packet and at least what any other request can replace.

**`PayloadsProofs`.** `ReadsInside` for DNS messages and DHCP options of any length and any
sizes of the fields: each turn of a loop tests an offset against the length before it
reads, and `Inside` keeps what those tests rely on (offsets are natural numbers, bytes
are, and what was read is inside). The walks over options need nothing but their tests.
The other two theorems compare a loop with a grammar, for messages of every length. The
grammar is written as functions that are recursive over positions (a name goes on elsewhere
at a pointer), so what they are must be proved first: `Recursion` shows that there is a
function as a definition says if its calls diminish a measure, by induction over the measure
(`ByMeasure`), and `OptionsAre`, `NameEndIs`, `LabelsAre`, `QuestionsAre` and `RecordsAre`
give its values. The measure of a name is the number of pointers left, times the length, plus
what is left of the message: this is why ten jumps suffice for an end. `OptionsAreRead`, by
`OptionsKept`: the options are those before the place of the walk and those ahead, the ones
before lie below those ahead, and what is kept is the first or last of those before.
`SaysWhatItSays`, by `DnsKept`: all there is to find is what was found, joined with what the
grammar says of the rest from where the loop stands; and while the first name is read, the
place where it ends is that of its first pointer (`InName`).

**`AlertsProofs`.** The detectors keep summaries of the packets, and each proof says what
one of them summarizes. `LimitsReported`: the ports of a source are those it probed until
there were too many, after which it is reported for good, whatever is collected again
(`PortsKept`); the counter of a pair is the number of its packets up to the limit
(`PairsCounted`). `OutboundReported`: a key is a connection only because of a packet in the
log, so a later packet of it is settled by what settled that one, and none of the reasons
is ever withdrawn (`OutboundKept`). `AlertedOnce`: the alerts of a packet contain each of
these rules at most once and only with news, that is a subject that enters the set of
what was told with this step (`NewsOfPacket`, by lemmas about the concatenations the
handler's alerts are built from); what was raised before was told before.
`FloodReported`: a pair keeps one window, so a burst of twice the limit can lie in two.
While its source is not reported, every span that reaches from the window before into this
one had less than the limit before this one began (`Calm`), and this one counts at most the
limit: together less than a burst. `HeartbeatReported`: the times of attempts in a row, of which
each may be followed by packets within the gap, are the last stamps of the connection,
exactly (`Records`, for every number of attempts up to the one judged, through the cut of the
list and the gap that ends an attempt): a packet is the next attempt and leaves a stamp, or
follows the last one too soon and leaves none. That the two sums, written as recursive functions, agree is shown by the least
index at which they do not (`SumOf`, `SquaresOf`). `WhitelistHolds`: an address that is
listed stands in no panel: `whitelist_ip` takes its alerts out, which is a lemma about
the k-th entry that stays (`SelectedIn`), and the rules that name it ask the list before
they push (`SparesPacket`).

**`PanelsProofs`.** `HostStays`, by `HostKept`: at most one node is pinned. For
`ReadersKeepPlace` the panels are described by sets instead of lists (`FeedSeen`,
`AlertsSeen`): what is shown is sorted, so on line k stands the k-th smallest of the times
that pass the filter (`SortedLists`), whichever buffers it came from. A step of the model
adds the largest time and takes away at most one (`OneLater`), which moves the line at the
reader's offset by what the offset moves (`PlaceKept`). `DevicesInReach`: the heading of the
subnet numbered i is on the line after the devices and headings before it (`LineIs`), so all
devices have a line and there are twice as many other lines as subnets; if these are no
more than the rows, the limit of `scroll_up` brings each line to the top or leaves it below
it in the panel (`BackShows`), and the list that follows shows its first (`LiveShows`).

Only model-checked: everything under fairness (`EveryRequestServed`, `LookupsSettle` of
`GeoLookup`, `KeysServed`, `CaptureEndShown`, `PhasesEnd`, `PayloadsHalt`, the fairness part
of `PromiseKept`), which the prover does not reach. Every invariant and every other action
property of a passing run is a theorem.
The induction theorems of the library take an operator as a parameter, which the
installed provers cannot instantiate. Where a proof needs induction over data it looks at a
least counterexample instead, which is first-order (`LeastExists`, `ByMeasure`, and
`SortedLists` by counting).

## 5. What is not modelled

* Names, MACs and vendors as text; sockets and packet formats of the probes (their
  outcome is a set of devices that answered); the tables of vendors and categories: no
  state, and nothing to check but their entries.
* The readers of the TLS hello, of HTTP hosts and of mDNS answers: the form is that of
  `Payloads`, and they are in the plan.
* What the user types after W or in the filter, key by key: the typed address is an input
  of `ForgetAlerts`.
* Drawing, formatting, report, packet log, launcher, build script, installer: output of state
  the other components keep.
* Where on the picture the radar draws a node, which is floating-point arithmetic.
* Cancelling inside the phases of `ScanProbes`: `Discovery` cancels between them, where the
  code tests the flag.

## 6. Plan

1. The parsers of the TLS hello and of mDNS answers in the form of `DnsMessage`.
2. `Alerts` composed with `UiLoop`, for the tier of a first contact, which depends on
   whether the answer of the geo thread is there (`display.rs:986`).
3. The modes in which keys are text.
