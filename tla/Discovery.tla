------------------------------ MODULE Discovery ------------------------------
(***************************************************************************)
(* LAN discovery: the UI loop that asks for scans and shows their results, *)
(* the discovery thread that serves the requests one by one, the sync      *)
(* thread that publishes a scan's working map to the map the UI reads, and *)
(* the enrichment thread that goes on after the scan is reported Ready and *)
(* that a new request cancels.  All of it is src/src/discovery.rs and the  *)
(* main loop of src/src/main.rs.                                           *)
(*                                                                         *)
(* A step is atomic between two points where another thread could see or   *)
(* change what it uses: one critical section of a mutex, one send or       *)
(* receive, one test of a flag, one pass over a map no other thread        *)
(* writes.  A pass of the sync thread holds the lock of `active` and is    *)
(* one step, and so is each pass of a scan over `active_dash`.             *)
(***************************************************************************)
EXTENDS Naturals, DeviceMap

CONSTANT MaxRequests   \* bound on the scans asked for in one session

ASSUME MaxRequestsAssumption == MaxRequests \in Nat

VARIABLES
  \* The UI thread.
  scan_has_run, auto_scan_enabled,
  fresh_scan_done,   \* a "Ready (" status was drained
  baseline_ips,      \* devices that are not [NEW]
  requests,          \* ScanNow sent so far (history, and the bound)
  \* Channels.
  signals,           \* ScanNow sent and not received
  ready,             \* "Ready (" statuses sent and not drained
  \* Maps behind a mutex, shared by all threads.
  active, passive,
  \* The discovery thread.
  dpc,
  pending_scan,
  cancel,            \* current_cancel, shared with the enrichment thread
  started,           \* scans begun so far (history)
  passive_dash,      \* copy of passive, taken when the scan began
  active_dash,       \* the scan's working map, shared with the other two
  new_map,           \* what this scan found
  snapshot,          \* devices whose name is to be looked up
  \* The enrichment thread, and the sync thread.
  bpc,
  spc, sync_stop,
  \* The baseline file: its last complete content, nothing after a write that
  \* broke off, and whether it is truncated for a write that is not complete.
  disk, torn,
  unsaved            \* the save before Announce was not carried out (history)

uiVars   == <<scan_has_run, auto_scan_enabled, fresh_scan_done, baseline_ips,
              requests>>
scanVars == <<pending_scan, cancel, started, passive_dash, new_map, snapshot>>
syncVars == <<spc, sync_stop>>
diskVars == <<disk, torn, unsaved>>
vars == <<uiVars, signals, ready, active, passive, dpc, scanVars, active_dash,
          bpc, syncVars, diskVars>>

DiscoveryPc == {"idle", "snapshot", "arp_table", "arp_sweep", "probe", "merge",
                "save", "saving", "announce", "poll", "try_recv", "join_bg",
                "join_sync"}

\* The steps of the enrichment thread and the one that follows each.
BgNext ==
  [browse |-> "lookup", lookup |-> "ssdp", ssdp |-> "wsd", wsd |-> "inform",
   inform |-> "http", http |-> "enrich", enrich |-> "listened",
   listened |-> "save", save |-> "saving", saving |-> "done"]

BgPc == DOMAIN BgNext \cup {"none", "done", "aborted"}

\* Steps that begin by testing the cancel flag.
Checkpoints == {"browse", "lookup", "ssdp", "wsd", "inform", "http", "enrich"}

TypeOK ==
  /\ scan_has_run \in BOOLEAN /\ auto_scan_enabled \in BOOLEAN
  /\ fresh_scan_done \in BOOLEAN /\ baseline_ips \subseteq Device
  /\ requests \in 0..MaxRequests
  /\ signals \in Nat /\ ready \in Nat
  /\ active \in DeviceMaps /\ passive \in DeviceMaps
  /\ dpc \in DiscoveryPc
  /\ pending_scan \in BOOLEAN /\ cancel \in BOOLEAN /\ started \in Nat
  /\ passive_dash \in DeviceMaps /\ active_dash \in DeviceMaps
  /\ new_map \in DeviceMaps /\ snapshot \subseteq Device
  /\ bpc \in BgPc
  /\ spc \in {"off", "run", "done"} /\ sync_stop \in BOOLEAN
  /\ disk \subseteq Device /\ torn \in BOOLEAN /\ unsaved \in BOOLEAN

\* The program starts with the devices of the baseline file as the ones that
\* are not [NEW], or with none when the file cannot be found, read or parsed;
\* the map of devices it shows starts empty.
Init ==
  /\ disk \in SUBSET Device /\ torn = FALSE /\ unsaved = FALSE
  /\ scan_has_run = FALSE /\ auto_scan_enabled = TRUE
  /\ fresh_scan_done = FALSE /\ baseline_ips \in {disk, {}}
  /\ requests = 0 /\ signals = 0 /\ ready = 0
  /\ active = EmptyMap /\ passive = EmptyMap
  /\ dpc = "idle" /\ pending_scan = FALSE /\ cancel = FALSE /\ started = 0
  /\ passive_dash = EmptyMap /\ active_dash = EmptyMap
  /\ new_map = EmptyMap /\ snapshot = {}
  /\ bpc = "none" /\ spc = "off" /\ sync_stop = FALSE

-----------------------------------------------------------------------------
(***************************************************************************)
(* The UI thread.                                                          *)
(***************************************************************************)
SendScanNow ==
  /\ requests < MaxRequests
  /\ requests' = requests + 1
  /\ signals' = signals + 1

\* Alt+S.
PressScan ==
  /\ SendScanNow
  /\ scan_has_run' = TRUE
  /\ UNCHANGED <<auto_scan_enabled, fresh_scan_done, baseline_ips, ready,
                 active, passive, dpc, scanVars, active_dash, bpc, syncVars,
                 diskVars>>

\* A.
ToggleAutoScan ==
  /\ auto_scan_enabled' = ~auto_scan_enabled
  /\ UNCHANGED <<scan_has_run, fresh_scan_done, baseline_ips, requests,
                 signals, ready, active, passive, dpc, scanVars, active_dash,
                 bpc, syncVars, diskVars>>

\* 180 seconds after the last request; a scan may take less or more, so the
\* timer may expire at any point of one.
AutoScan ==
  /\ auto_scan_enabled /\ scan_has_run
  /\ SendScanNow
  /\ UNCHANGED <<scan_has_run, auto_scan_enabled, fresh_scan_done,
                 baseline_ips, ready, active, passive, dpc, scanVars,
                 active_dash, bpc, syncVars, diskVars>>

\* The UI drains a "Ready (" status: what `active` holds by now is no longer
\* [NEW].
DrainReady ==
  /\ ready > 0
  /\ ready' = ready - 1
  /\ fresh_scan_done' = TRUE
  /\ baseline_ips' = baseline_ips \cup Known(active)
  /\ UNCHANGED <<scan_has_run, auto_scan_enabled, requests, signals, active,
                 passive, dpc, scanVars, active_dash, bpc, syncVars, diskVars>>

\* The UI drains an address the capture thread heard.  An address that is
\* known already only has counters reset that nothing advances.
HearPassive(d) ==
  /\ passive[d] = Absent
  /\ passive' = [passive EXCEPT ![d] = Seen("dash")]
  /\ UNCHANGED <<uiVars, signals, ready, active, dpc, scanVars, active_dash,
                 bpc, syncVars, diskVars>>

\* The UI ingests a DHCP request that carries a hostname (option 12).  The
\* code takes the two locks one after the other, `active` first; a scan
\* copies `passive` first, so splitting the step gives it nothing new to see.
HearDhcpHostname(d) ==
  /\ active' = NameUnresolved(active, {d})
  /\ passive' = NameUnresolved(passive, {d})
  /\ UNCHANGED <<uiVars, signals, ready, dpc, scanVars, active_dash, bpc,
                 syncVars, diskVars>>

UserInterface ==
  \/ PressScan
  \/ ToggleAutoScan
  \/ AutoScan
  \/ DrainReady
  \/ \E d \in Device : HearPassive(d) \/ HearDhcpHostname(d)

-----------------------------------------------------------------------------
(***************************************************************************)
(* The discovery thread.                                                   *)
(***************************************************************************)
\* (bug) The postponed scan is served and stays postponed.
BeginScan_KeepPending ==
  /\ dpc = "idle"
  /\ \/ pending_scan /\ UNCHANGED signals
     \/ ~pending_scan /\ signals > 0 /\ signals' = signals - 1
  /\ started < MaxRequests + 1
  /\ cancel' = FALSE
  /\ started' = started + 1
  /\ passive_dash' = passive
  /\ dpc' = "snapshot"
  /\ UNCHANGED <<uiVars, ready, active, passive, pending_scan, active_dash,
                 new_map, snapshot, bpc, syncVars, diskVars>>

\* The scan postponed by the poll loop first, then the channel.  The flag of
\* the previous scan, whose threads were joined, is replaced by a fresh one.
BeginScan ==
  /\ dpc = "idle"
  /\ \/ pending_scan /\ UNCHANGED signals
     \/ ~pending_scan /\ signals > 0 /\ signals' = signals - 1
  /\ pending_scan' = FALSE
  /\ cancel' = FALSE
  /\ started' = started + 1
  /\ passive_dash' = passive
  /\ dpc' = "snapshot"
  /\ UNCHANGED <<uiVars, ready, active, passive, active_dash, new_map,
                 snapshot, bpc, syncVars, diskVars>>

\* (bug) The sync thread is spawned over a working map that was not filled.
SnapshotActive_NoCopy ==
  /\ dpc = "snapshot"
  /\ spc' = "run" /\ sync_stop' = FALSE
  /\ dpc' = "arp_table"
  /\ UNCHANGED <<uiVars, signals, ready, active, passive, scanVars,
                 active_dash, bpc, diskVars>>

\* Copy `active`, then spawn the sync thread.
SnapshotActive ==
  /\ dpc = "snapshot"
  /\ active_dash' = active
  /\ spc' = "run" /\ sync_stop' = FALSE
  /\ dpc' = "arp_table"
  /\ UNCHANGED <<uiVars, signals, ready, active, passive, scanVars, bpc,
                 diskVars>>

\* Stage 1: the neighbour table of the operating system.
ReadArpTable(S) ==
  /\ dpc = "arp_table"
  /\ new_map' = Overlay(Found(S \cap Resolvable, "resolving"),
                        Found(S \ Resolvable, "dash"))
  /\ snapshot' = S \cap Resolvable
  /\ dpc' = "arp_sweep"
  /\ UNCHANGED <<uiVars, signals, ready, active, passive, pending_scan, cancel,
                 started, passive_dash, active_dash, bpc, syncVars, diskVars>>

\* Stage 2: the replies to the ARP sweep replace what stage 1 put there.
ArpSweep(S) ==
  /\ dpc = "arp_sweep"
  /\ S \cap Fe80 = {}
  /\ new_map' = Overlay(Found(S, "resolving"), new_map)
  /\ snapshot' = snapshot \cup (S \cap Resolvable)
  /\ dpc' = "probe"
  /\ UNCHANGED <<uiVars, signals, ready, active, passive, pending_scan, cancel,
                 started, passive_dash, active_dash, bpc, syncVars, diskVars>>

\* Stages 3 to 6: the mDNS listener and the 3 second browse heard the names
\* of H; the wake and unicast probes, sent over IPv4, got the names of P.
ProbeNames(H, P) ==
  /\ dpc = "probe"
  /\ P \cap Fe80 = {}
  /\ new_map' = Rename(Overlay(new_map, Found(H, "named")), P)
  /\ snapshot' = snapshot \cup (H \cap Resolvable)
  /\ dpc' = "merge"
  /\ UNCHANGED <<uiVars, signals, ready, active, passive, pending_scan, cancel,
                 started, passive_dash, active_dash, bpc, syncVars, diskVars>>

\* (bug) The list is reported before the baseline is saved.
MergeFound_SkipSave ==
  /\ dpc = "merge"
  /\ active_dash' = MergeScan(active_dash, Overlay(new_map, passive_dash))
  /\ dpc' = "announce"
  /\ UNCHANGED <<uiVars, signals, ready, active, passive, scanVars, bpc,
                 syncVars, diskVars>>

\* Devices the scan missed but the capture thread heard count as found; the
\* rest ages.
MergeFound ==
  /\ dpc = "merge"
  /\ active_dash' = MergeScan(active_dash, Overlay(new_map, passive_dash))
  /\ dpc' = "save"
  /\ UNCHANGED <<uiVars, signals, ready, active, passive, scanVars, bpc,
                 syncVars, diskVars>>

\* save_baseline: fs::write truncates the file and then fills it.
Truncate == torn' = TRUE /\ UNCHANGED <<disk, unsaved>>

Fill == /\ torn' = FALSE
        /\ disk' \in SavedKeys(active_dash)
        /\ UNCHANGED unsaved

TruncateEarly ==
  /\ dpc = "save"
  /\ Truncate
  /\ dpc' = "saving"
  /\ UNCHANGED <<uiVars, signals, ready, active, passive, scanVars,
                 active_dash, bpc, syncVars>>

\* (bug) Only what this scan found is saved.
FillEarly_OnlyFound ==
  /\ dpc = "saving"
  /\ torn' = FALSE
  /\ disk' \in SavedKeys(new_map)
  /\ dpc' = "announce"
  /\ UNCHANGED <<uiVars, signals, ready, active, passive, scanVars,
                 active_dash, bpc, syncVars, unsaved>>

FillEarly ==
  /\ dpc = "saving"
  /\ Fill
  /\ dpc' = "announce"
  /\ UNCHANGED <<uiVars, signals, ready, active, passive, scanVars,
                 active_dash, bpc, syncVars>>

\* save_baseline tells its caller nothing: without APPDATA, or when the file
\* cannot be opened, it leaves the file as it was; a write that breaks off
\* leaves one that does not parse.
Fail(step) ==
  IF step = "saving" THEN disk' = {} /\ torn' = TRUE
                     ELSE UNCHANGED <<disk, torn>>

\* The list is reported all the same.
FailEarly ==
  /\ dpc \in {"save", "saving"}
  /\ Fail(dpc)
  /\ unsaved' = TRUE
  /\ dpc' = "announce"
  /\ UNCHANGED <<uiVars, signals, ready, active, passive, scanVars,
                 active_dash, bpc, syncVars>>

\* (bug) Only the devices this scan found are looked up.
Announce_NoRetry ==
  /\ dpc = "announce"
  /\ ready' = ready + 1
  /\ new_map' = EmptyMap /\ passive_dash' = EmptyMap
  /\ bpc' = "browse"
  /\ dpc' = "poll"
  /\ unsaved' = FALSE
  /\ UNCHANGED <<uiVars, signals, active, passive, pending_scan, cancel,
                 started, snapshot, active_dash, syncVars, disk, torn>>

\* Report Ready, add the cached devices that still show a placeholder to the
\* lookups, spawn the enrichment thread.  What perform_scan kept is dropped,
\* and with it the history of its save.
Announce ==
  /\ dpc = "announce"
  /\ ready' = ready + 1
  /\ snapshot' = snapshot \cup
       {d \in Resolvable : active_dash[d] # Absent /\ Unresolved(active_dash[d])}
  /\ new_map' = EmptyMap /\ passive_dash' = EmptyMap
  /\ bpc' = "browse"
  /\ dpc' = "poll"
  /\ unsaved' = FALSE
  /\ UNCHANGED <<uiVars, signals, active, passive, pending_scan, cancel,
                 started, active_dash, syncVars, disk, torn>>

BgFinished == bpc \in {"done", "aborted"}

\* while !bg_handle.is_finished()
PollFinished ==
  /\ dpc = "poll"
  /\ dpc' = IF BgFinished THEN "join_bg" ELSE "try_recv"
  /\ UNCHANGED <<uiVars, signals, ready, active, passive, scanVars,
                 active_dash, bpc, syncVars, diskVars>>

\* (bug) The request cancels the enrichment and is forgotten.
ReceiveWhilePolling_NoPending ==
  /\ dpc = "try_recv"
  /\ signals > 0
  /\ signals' = signals - 1
  /\ cancel' = TRUE
  /\ dpc' = "join_bg"
  /\ UNCHANGED <<uiVars, ready, active, passive, pending_scan, started,
                 passive_dash, new_map, snapshot, active_dash, bpc, syncVars,
                 diskVars>>

\* A request cancels the enrichment and is kept for the next scan.
ReceiveWhilePolling ==
  /\ dpc = "try_recv"
  /\ signals > 0
  /\ signals' = signals - 1
  /\ cancel' = TRUE /\ pending_scan' = TRUE
  /\ dpc' = "join_bg"
  /\ UNCHANGED <<uiVars, ready, active, passive, started, passive_dash,
                 new_map, snapshot, active_dash, bpc, syncVars, diskVars>>

FindChannelEmpty ==
  /\ dpc = "try_recv"
  /\ signals = 0
  /\ dpc' = "poll"
  /\ UNCHANGED <<uiVars, signals, ready, active, passive, scanVars,
                 active_dash, bpc, syncVars, diskVars>>

\* (bug) The enrichment thread is told to stop and not waited for.
JoinBg_NoWait ==
  /\ dpc = "join_bg"
  /\ sync_stop' = TRUE
  /\ dpc' = "join_sync"
  /\ UNCHANGED <<uiVars, signals, ready, active, passive, scanVars,
                 active_dash, bpc, spc, diskVars>>

\* (bug) The sync thread is joined without being told to stop.
JoinBg_NoStop ==
  /\ dpc = "join_bg"
  /\ BgFinished
  /\ dpc' = "join_sync"
  /\ UNCHANGED <<uiVars, signals, ready, active, passive, scanVars,
                 active_dash, bpc, syncVars, diskVars>>

JoinBg ==
  /\ dpc = "join_bg"
  /\ BgFinished
  /\ sync_stop' = TRUE
  /\ dpc' = "join_sync"
  /\ UNCHANGED <<uiVars, signals, ready, active, passive, scanVars,
                 active_dash, bpc, spc, diskVars>>

\* The working map of this scan is gone after this step.
JoinSync ==
  /\ dpc = "join_sync"
  /\ spc = "done"
  /\ active_dash' = EmptyMap /\ snapshot' = {}
  /\ dpc' = "idle"
  /\ UNCHANGED <<uiVars, signals, ready, active, passive, pending_scan, cancel,
                 started, passive_dash, new_map, bpc, syncVars, diskVars>>

DiscoveryThread ==
  \/ BeginScan \/ SnapshotActive
  \/ \E S \in SUBSET Device : ReadArpTable(S) \/ ArpSweep(S)
  \/ \E H, P \in SUBSET Device : ProbeNames(H, P)
  \/ MergeFound \/ TruncateEarly \/ FillEarly \/ FailEarly \/ Announce
  \/ PollFinished \/ ReceiveWhilePolling \/ FindChannelEmpty
  \/ JoinBg \/ JoinSync

-----------------------------------------------------------------------------
(***************************************************************************)
(* The sync thread.                                                        *)
(***************************************************************************)
\* Insert every entry of the working map, then retain only its keys.
Publish == active' = active_dash

SyncPass ==
  /\ spc = "run" /\ ~sync_stop
  /\ Publish
  /\ UNCHANGED <<uiVars, signals, ready, passive, dpc, scanVars, active_dash,
                 bpc, syncVars, diskVars>>

\* (bug) The thread ends without the pass after the flag was seen.
FinalSync_NoPass ==
  /\ spc = "run" /\ sync_stop
  /\ spc' = "done"
  /\ UNCHANGED <<uiVars, signals, ready, active, passive, dpc, scanVars,
                 active_dash, bpc, sync_stop, diskVars>>

\* One more pass after the flag was seen.
FinalSync ==
  /\ spc = "run" /\ sync_stop
  /\ Publish
  /\ spc' = "done"
  /\ UNCHANGED <<uiVars, signals, ready, passive, dpc, scanVars, active_dash,
                 bpc, sync_stop, diskVars>>

SyncThread == SyncPass \/ FinalSync

-----------------------------------------------------------------------------
(***************************************************************************)
(* The enrichment thread.                                                  *)
(***************************************************************************)
\* A checkpoint that finds the flag set stops the listener and returns.
Abort ==
  /\ bpc \in Checkpoints
  /\ cancel
  /\ bpc' = "aborted"
  /\ UNCHANGED <<uiVars, signals, ready, active, passive, dpc, scanVars,
                 active_dash, syncVars, diskVars>>

Proceed(step) ==
  /\ bpc = step
  /\ step \in Checkpoints => ~cancel
  /\ bpc' = BgNext[step]
  /\ UNCHANGED <<uiVars, signals, ready, active, passive, dpc, scanVars,
                 syncVars>>

\* Devices only mDNS knows enter with the name it gave.
Browse(S) ==
  /\ Proceed("browse")
  /\ active_dash' = Overlay(active_dash, Found(S, "named"))
  /\ UNCHANGED diskVars

\* Name lookups of every device of the snapshot, R answered in time.
Lookup(R) ==
  /\ Proceed("lookup")
  /\ active_dash' = Looked(active_dash, snapshot, R)
  /\ UNCHANGED diskVars

\* SSDP and the DHCP inform probe write device metadata only.
ProbeMetadata ==
  /\ Proceed("ssdp") \/ Proceed("inform")
  /\ UNCHANGED <<active_dash, diskVars>>

\* WS-Discovery, web page titles and the models found in the metadata name
\* the devices of S that show a placeholder.
NameFromProbe(S) ==
  /\ Proceed("wsd") \/ Proceed("http") \/ Proceed("enrich")
  /\ active_dash' = NameUnresolved(active_dash, S)
  /\ UNCHANGED diskVars

\* The listener is stopped and what it heard, the names of S, is merged.
MergeListened(S) ==
  /\ Proceed("listened")
  /\ active_dash' = Overlay(NameUnresolved(active_dash, S), Found(S, "named"))
  /\ UNCHANGED diskVars

TruncateFinal ==
  /\ Proceed("save")
  /\ Truncate
  /\ UNCHANGED active_dash

FillFinal ==
  /\ Proceed("saving")
  /\ Fill
  /\ UNCHANGED active_dash

\* The thread ends all the same.
FailFinal ==
  /\ bpc \in {"save", "saving"}
  /\ Fail(bpc)
  /\ bpc' = "done"
  /\ UNCHANGED <<uiVars, signals, ready, active, passive, dpc, scanVars,
                 active_dash, syncVars, unsaved>>

BgThread ==
  \/ Abort
  \/ \E S \in SUBSET Device :
        Browse(S) \/ Lookup(S) \/ NameFromProbe(S) \/ MergeListened(S)
  \/ ProbeMetadata \/ TruncateFinal \/ FillFinal \/ FailFinal

-----------------------------------------------------------------------------
Next == UserInterface \/ DiscoveryThread \/ SyncThread \/ BgThread

\* The threads are scheduled and every wait in them is timed (sockets,
\* recv_timeout, the listener's 500 ms reads); the UI loop drains its
\* channels on every turn.  Nobody has to press a key or send a packet.
Fairness ==
  /\ WF_vars(DiscoveryThread)
  /\ WF_vars(SyncThread)
  /\ WF_vars(BgThread)
  /\ WF_vars(DrainReady)

Spec == Init /\ [][Next]_vars /\ Fairness

-----------------------------------------------------------------------------
(***************************************************************************)
(* Properties.                                                             *)
(***************************************************************************)
\* While a sync thread runs, the map the UI reads holds no device the working
\* map lacks: what retain() removes (discovery.rs:1353) is nothing.
PublishedIsKnown ==
  spc = "run" => Known(active) \subseteq Known(active_dash)

\* When the sync thread ends, every device of the scan has been published,
\* those the enrichment found after the last periodic pass included: the
\* working map is dropped next and the following scan starts from `active`.
ScanIsPublished ==
  dpc = "join_sync" /\ spc = "done" => Known(active) = Known(active_dash)

\* The early save and the final save, made by different threads, never write
\* the file at the same time, and no early save meets a running enrichment.
OneWriter ==
  dpc \in {"save", "saving"} => bpc \in {"none", "done", "aborted"}

\* No request is lost or served twice, whether it comes while the discovery
\* thread waits, scans or polls.
RequestsConserved ==
  requests = started + signals + (IF pending_scan THEN 1 ELSE 0)

\* Once the enrichment ran to its end, no device whose name can be looked up
\* still shows "Resolving...", one cached from a cancelled scan included.
LookupsSettle ==
  bpc = "done" /\ dpc \in {"poll", "try_recv", "join_bg", "join_sync"} =>
    \A d \in Resolvable :
      active_dash[d] # Absent => active_dash[d].name # "resolving"

\* A device shown in the list stays there for the session, although every
\* pass of the sync thread deletes keys.
DevicesNeverVanish == [][Known(active) \subseteq Known(active')]_vars

\* A scan never turns a name of its working map into a placeholder.
ScanKeepsNames ==
  [][ dpc # "join_sync" =>
        \A d \in Device :
          active_dash[d] # Absent /\ active_dash[d].name = "named" =>
            active_dash'[d].name = "named" ]_vars

\* A save that is carried out drops no device that the one carried out before
\* it had saved and the session shows, an fe80 address excepted: it may have
\* got an IPv4 twin.  A write that breaks off loses the whole file.
SavesKeepSession ==
  [][~torn' => (Known(active) \cap disk) \ Fe80 \subseteq disk']_vars

\* When a scan is reported Ready, the file is complete and holds every device
\* the scan knows, fe80 addresses excepted, unless its save failed: then the
\* scan is reported over the file of an earlier save, or over a broken one.
ReadyIsSaved ==
  [][ready' > ready =>
       unsaved \/ (~torn /\ Known(active_dash) \ Fe80 \subseteq disk)]_vars

\* Every request is followed by a scan of its own.
EveryRequestServed ==
  \A n \in 1..MaxRequests : requests >= n ~> started >= n

\* The threads together keep the promise of ScanService.
Promise == INSTANCE ScanService WITH
  asked <- requests, served <- started, busy <- (dpc # "idle"),
  listed <- Known(active)

PromiseKept == Promise!Spec

-----------------------------------------------------------------------------
(***************************************************************************)
(* What the documentation and the comments say and the code does not do.   *)
(* It is violated, by the run that checks it.                              *)
(***************************************************************************)
\* The marker of a device in the list.
IsNew(d) ==
  /\ d \notin Fe80
  /\ fresh_scan_done
  /\ active[d] # Absent
  /\ d \notin baseline_ips

\* "any device not seen before is marked [NEW]" (README.md:34): a device is
\* taken for known only after the list marked it.  When the sync thread
\* publishes the scan before the UI drains its Ready status, the devices it
\* found are taken for known in the step that turns the markers on.
MarkedBeforeAccepted ==
  [][\A d \in (baseline_ips' \ baseline_ips) \ Fe80 : IsNew(d)]_vars
=============================================================================
