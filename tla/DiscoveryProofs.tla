--------------------------- MODULE DiscoveryProofs ---------------------------
(***************************************************************************)
(* Theorems about Discovery, for every set of devices and every bound on   *)
(* the requests, and, at the end, about Sessions.                          *)
(***************************************************************************)
EXTENDS Sessions, DeviceMapProofs

-----------------------------------------------------------------------------
(***************************************************************************)
(* Type correctness.                                                       *)
(***************************************************************************)
\* The program counters of the enrichment thread, spelled out.
LEMMA BgPcs ==
  /\ BgPc = {"browse", "lookup", "ssdp", "wsd", "inform", "http", "enrich",
             "listened", "save", "saving", "none", "done", "aborted"}
  /\ BgNext["browse"] = "lookup" /\ BgNext["lookup"] = "ssdp"
  /\ BgNext["ssdp"] = "wsd" /\ BgNext["wsd"] = "inform"
  /\ BgNext["inform"] = "http" /\ BgNext["http"] = "enrich"
  /\ BgNext["enrich"] = "listened" /\ BgNext["listened"] = "save"
  /\ BgNext["save"] = "saving" /\ BgNext["saving"] = "done"
<1>1. DOMAIN BgNext =
        {"browse", "lookup", "ssdp", "wsd", "inform", "http", "enrich",
         "listened", "save", "saving"}
  BY DEF BgNext
<1>2. BgPc = {"browse", "lookup", "ssdp", "wsd", "inform", "http", "enrich",
              "listened", "save", "saving", "none", "done", "aborted"}
  BY <1>1 DEF BgPc
<1>3. /\ BgNext["browse"] = "lookup" /\ BgNext["lookup"] = "ssdp"
      /\ BgNext["ssdp"] = "wsd" /\ BgNext["wsd"] = "inform"
      /\ BgNext["inform"] = "http" /\ BgNext["http"] = "enrich"
      /\ BgNext["enrich"] = "listened" /\ BgNext["listened"] = "save"
      /\ BgNext["save"] = "saving" /\ BgNext["saving"] = "done"
  BY DEF BgNext
<1> QED
  BY <1>2, <1>3

\* The program starts in a state of the right types.
LEMMA TypeInit == Init => TypeOK
<1> SUFFICES ASSUME Init PROVE TypeOK
  OBVIOUS
<1>1. /\ active \in DeviceMaps /\ passive \in DeviceMaps
      /\ passive_dash \in DeviceMaps /\ active_dash \in DeviceMaps
      /\ new_map \in DeviceMaps
  BY FreshMaps DEF Init
<1>2. dpc \in DiscoveryPc /\ bpc \in BgPc
  BY BgPcs DEF Init, DiscoveryPc
<1>3. requests \in 0..MaxRequests
  BY MaxRequestsAssumption DEF Init
<1>4. /\ disk \subseteq Device /\ baseline_ips \subseteq Device
      /\ snapshot \subseteq Device
  BY DEF Init
<1>5. /\ scan_has_run \in BOOLEAN /\ auto_scan_enabled \in BOOLEAN
      /\ fresh_scan_done \in BOOLEAN /\ pending_scan \in BOOLEAN
      /\ cancel \in BOOLEAN /\ sync_stop \in BOOLEAN /\ torn \in BOOLEAN
      /\ unsaved \in BOOLEAN
      /\ signals \in Nat /\ ready \in Nat /\ started \in Nat
      /\ spc \in {"off", "run", "done"}
  BY DEF Init
<1> QED
  BY <1>1, <1>2, <1>3, <1>4, <1>5 DEF TypeOK

\* What the UI thread does keeps the types.
LEMMA TypeUserInterface == TypeOK /\ UserInterface => TypeOK'
<1> SUFFICES ASSUME TypeOK, UserInterface PROVE TypeOK'
  OBVIOUS
<1> USE MaxRequestsAssumption DEF TypeOK, uiVars, scanVars, syncVars, diskVars
<1>1. CASE PressScan
  BY <1>1 DEF PressScan, SendScanNow
<1>2. CASE ToggleAutoScan
  BY <1>2 DEF ToggleAutoScan
<1>3. CASE AutoScan
  BY <1>3 DEF AutoScan, SendScanNow
<1>4. CASE DrainReady
  BY <1>4 DEF DrainReady, Known
<1>5. ASSUME NEW d \in Device, HearPassive(d)
      PROVE  TypeOK'
  <2>1. Seen("dash") \in Entry
    BY DEF Seen, Entry, Name
  <2> QED
    BY <1>5, <2>1 DEF HearPassive, DeviceMaps
<1>6. ASSUME NEW d \in Device, HearDhcpHostname(d)
      PROVE  TypeOK'
  BY <1>6, NamingMaps DEF HearDhcpHostname
<1> QED
  BY <1>1, <1>2, <1>3, <1>4, <1>5, <1>6 DEF UserInterface

\* What the discovery thread does keeps the types.
LEMMA TypeDiscoveryThread == TypeOK /\ DiscoveryThread => TypeOK'
<1> SUFFICES ASSUME TypeOK, DiscoveryThread PROVE TypeOK'
  OBVIOUS
<1> USE DEF TypeOK, DiscoveryPc, uiVars, scanVars, syncVars, diskVars
<1>1. CASE BeginScan
  <2>1. signals' \in Nat
    BY <1>1 DEF BeginScan
  <2>2. started' \in Nat
    BY <1>1 DEF BeginScan
  <2> QED
    BY <1>1, <2>1, <2>2 DEF BeginScan
<1>2. CASE SnapshotActive
  BY <1>2 DEF SnapshotActive
<1>3. ASSUME NEW S \in SUBSET Device, ReadArpTable(S)
      PROVE  TypeOK'
  <2>1. new_map' \in DeviceMaps
    <3>1. /\ Found(S \cap Resolvable, "resolving") \in DeviceMaps
          /\ Found(S \ Resolvable, "dash") \in DeviceMaps
      BY FreshMaps DEF Name
    <3> QED
      BY <1>3, <3>1, OverlayMaps DEF ReadArpTable
  <2> QED
    BY <1>3, <2>1 DEF ReadArpTable
<1>4. ASSUME NEW S \in SUBSET Device, ArpSweep(S)
      PROVE  TypeOK'
  <2>1. new_map' \in DeviceMaps
    <3>1. Found(S, "resolving") \in DeviceMaps
      BY FreshMaps DEF Name
    <3> QED
      BY <1>4, <3>1, OverlayMaps DEF ArpSweep
  <2> QED
    BY <1>4, <2>1 DEF ArpSweep
<1>5. ASSUME NEW H \in SUBSET Device, NEW P \in SUBSET Device,
             ProbeNames(H, P)
      PROVE  TypeOK'
  <2>1. new_map' \in DeviceMaps
    <3>1. Found(H, "named") \in DeviceMaps
      BY FreshMaps DEF Name
    <3> QED
      BY <1>5, <3>1, OverlayMaps, NamingMaps DEF ProbeNames
  <2> QED
    BY <1>5, <2>1 DEF ProbeNames
<1>6. CASE MergeFound
  <2>1. active_dash' \in DeviceMaps
    BY <1>6, OverlayMaps, MergeMaps DEF MergeFound
  <2> QED
    BY <1>6, <2>1 DEF MergeFound
<1>7. CASE TruncateEarly
  BY <1>7 DEF TruncateEarly, Truncate
<1>8. CASE FillEarly
  BY <1>8 DEF FillEarly, Fill, SavedKeys, Known
<1>9. CASE FailEarly
  BY <1>9 DEF FailEarly, Fail
<1>10. CASE Announce
  <2>1. EmptyMap \in DeviceMaps /\ "browse" \in BgPc
    BY FreshMaps, BgPcs
  <2>2. snapshot' \subseteq Device
    BY <1>10, DeviceAssumption DEF Announce
  <2>3. /\ disk' \subseteq Device /\ torn' \in BOOLEAN
        /\ unsaved' \in BOOLEAN
    BY <1>10 DEF Announce
  <2> QED
    BY <1>10, <2>1, <2>2, <2>3 DEF Announce
<1>11. CASE PollFinished
  BY <1>11 DEF PollFinished
<1>12. CASE ReceiveWhilePolling
  BY <1>12 DEF ReceiveWhilePolling
<1>13. CASE FindChannelEmpty
  BY <1>13 DEF FindChannelEmpty
<1>14. CASE JoinBg
  BY <1>14 DEF JoinBg
<1>15. CASE JoinSync
  BY <1>15, FreshMaps DEF JoinSync
<1> QED
  BY <1>1, <1>2, <1>3, <1>4, <1>5, <1>6, <1>7, <1>8, <1>9, <1>10, <1>11,
     <1>12, <1>13, <1>14, <1>15 DEF DiscoveryThread

\* What the sync thread does keeps the types.
LEMMA TypeSyncThread == TypeOK /\ SyncThread => TypeOK'
BY DEF TypeOK, SyncThread, SyncPass, FinalSync, Publish, uiVars, scanVars,
       syncVars, diskVars

\* A step of the enrichment thread goes on to the next one.
LEMMA ProceedTypes ==
  ASSUME NEW step \in DOMAIN BgNext, Proceed(step)
  PROVE  bpc' \in BgPc \ {"none", "aborted"}
BY BgPcs DEF Proceed, BgNext

\* The enrichment thread, once its map and the file are known to be right.
LEMMA TypeBgStep ==
  ASSUME TypeOK, NEW step \in DOMAIN BgNext, Proceed(step),
         active_dash' \in DeviceMaps, disk' \subseteq Device, torn' \in BOOLEAN,
         unsaved' \in BOOLEAN
  PROVE  TypeOK'
<1>1. bpc' \in BgPc
  BY ProceedTypes
<1> QED
  BY <1>1 DEF TypeOK, Proceed, uiVars, scanVars, syncVars

\* What the enrichment thread does keeps the types.
LEMMA TypeBgThread == TypeOK /\ BgThread => TypeOK'
<1> SUFFICES ASSUME TypeOK, BgThread PROVE TypeOK'
  OBVIOUS
<1>s. DOMAIN BgNext =
        {"browse", "lookup", "ssdp", "wsd", "inform", "http", "enrich",
         "listened", "save", "saving"}
  BY DEF BgNext
<1>t. /\ active_dash \in DeviceMaps /\ disk \subseteq Device
      /\ torn \in BOOLEAN /\ unsaved \in BOOLEAN
  BY DEF TypeOK
<1>1. CASE Abort
  <2>1. "aborted" \in BgPc
    BY BgPcs
  <2> QED
    BY <1>1, <2>1 DEF Abort, TypeOK, uiVars, scanVars, syncVars, diskVars
<1>n. \A S : Found(S, "named") \in DeviceMaps
  BY FreshMaps DEF Name
<1>2. ASSUME NEW S \in SUBSET Device, Browse(S)
      PROVE  TypeOK'
  <2>1. active_dash' \in DeviceMaps
    BY <1>2, <1>t, <1>n, OverlayMaps DEF Browse
  <2> QED
    BY <1>2, <2>1, <1>s, <1>t, TypeBgStep DEF Browse, diskVars
<1>3. ASSUME NEW S \in SUBSET Device, Lookup(S)
      PROVE  TypeOK'
  <2>1. active_dash' \in DeviceMaps
    BY <1>3, <1>t, NamingMaps DEF Lookup
  <2> QED
    BY <1>3, <2>1, <1>s, <1>t, TypeBgStep DEF Lookup, diskVars
<1>4. ASSUME NEW S \in SUBSET Device, NameFromProbe(S)
      PROVE  TypeOK'
  <2>1. active_dash' \in DeviceMaps
    BY <1>4, <1>t, NamingMaps DEF NameFromProbe
  <2> QED
    BY <1>4, <2>1, <1>s, <1>t, TypeBgStep DEF NameFromProbe, diskVars
<1>5. ASSUME NEW S \in SUBSET Device, MergeListened(S)
      PROVE  TypeOK'
  <2>1. active_dash' \in DeviceMaps
    BY <1>5, <1>t, <1>n, NamingMaps, OverlayMaps DEF MergeListened
  <2> QED
    BY <1>5, <2>1, <1>s, <1>t, TypeBgStep DEF MergeListened, diskVars
<1>6. CASE ProbeMetadata
  BY <1>6, <1>s, <1>t, TypeBgStep DEF ProbeMetadata, diskVars
<1>7. CASE TruncateFinal
  BY <1>7, <1>s, <1>t, TypeBgStep DEF TruncateFinal, Truncate
<1>8. CASE FillFinal
  <2>1. disk' \subseteq Device /\ torn' \in BOOLEAN
    BY <1>8 DEF FillFinal, Fill, SavedKeys, Known
  <2> QED
    BY <1>8, <2>1, <1>s, <1>t, TypeBgStep DEF FillFinal, Fill
<1>9. CASE FailFinal
  <2>1. "done" \in BgPc
    BY BgPcs
  <2> QED
    BY <1>9, <2>1 DEF FailFinal, Fail, TypeOK, uiVars, scanVars, syncVars
<1> QED
  BY <1>1, <1>2, <1>3, <1>4, <1>5, <1>6, <1>7, <1>8, <1>9 DEF BgThread

\* No step of any thread breaks a type.
LEMMA TypeStep == TypeOK /\ [Next]_vars => TypeOK'
<1>1. TypeOK /\ UNCHANGED vars => TypeOK'
  BY DEF TypeOK, vars, uiVars, scanVars, syncVars, diskVars
<1> QED
  BY <1>1, TypeUserInterface, TypeDiscoveryThread, TypeSyncThread,
     TypeBgThread DEF Next

\* The variables keep their types for ever.
THEOREM TypeCorrect == Spec => []TypeOK
BY TypeInit, TypeStep, PTL DEF Spec

-----------------------------------------------------------------------------
(***************************************************************************)
(* Who runs when.  No safety property of the maps or the file is inductive *)
(* alone: each needs to know which threads a program counter of the        *)
(* discovery thread leaves running.                                        *)
(***************************************************************************)
BgRuns == bpc \notin {"none", "done", "aborted"}

\* The enrichment thread runs between Announce and JoinBg only; the sync
\* thread runs from SnapshotActive until JoinBg tells it to stop.  A request
\* is postponed only when the poll loop is left, so one at most.
ThreadControl ==
  /\ BgRuns => dpc \in {"poll", "try_recv", "join_bg"}
  /\ spc = "run" => dpc \notin {"idle", "snapshot"}
  /\ dpc \notin {"idle", "snapshot", "join_sync"} => spc = "run"
  /\ sync_stop /\ spc = "run" => dpc = "join_sync"
  /\ pending_scan => dpc \in {"join_bg", "join_sync", "idle"}

\* The UI thread touches neither the other threads nor what a scan works on,
\* and adds no device to the list.
LEMMA UserInterfaceFrame ==
  ASSUME TypeOK, UserInterface
  PROVE  /\ UNCHANGED <<dpc, scanVars, active_dash, bpc, syncVars, diskVars>>
         /\ Known(active') = Known(active)
<1>1. CASE PressScan
  BY <1>1 DEF PressScan
<1>2. CASE ToggleAutoScan
  BY <1>2 DEF ToggleAutoScan
<1>3. CASE AutoScan
  BY <1>3 DEF AutoScan
<1>4. CASE DrainReady
  BY <1>4 DEF DrainReady
<1>5. ASSUME NEW d \in Device, HearPassive(d)
      PROVE  /\ UNCHANGED <<dpc, scanVars, active_dash, bpc, syncVars, diskVars>>
             /\ Known(active') = Known(active)
  BY <1>5 DEF HearPassive
<1>6. ASSUME NEW d \in Device, HearDhcpHostname(d)
      PROVE  /\ UNCHANGED <<dpc, scanVars, active_dash, bpc, syncVars, diskVars>>
             /\ Known(active') = Known(active)
  BY <1>6, NamingMaps DEF HearDhcpHostname, TypeOK
<1> QED
  BY <1>1, <1>2, <1>3, <1>4, <1>5, <1>6 DEF UserInterface

\* A thread that takes a step runs.
LEMMA BgThreadRuns == BgThread => BgRuns
<1>1. \A step \in DOMAIN BgNext : Proceed(step) => BgRuns
  BY BgPcs DEF Proceed, BgRuns, BgNext
<1>2. DOMAIN BgNext =
        {"browse", "lookup", "ssdp", "wsd", "inform", "http", "enrich",
         "listened", "save", "saving"}
  BY DEF BgNext
<1> QED
  BY <1>1, <1>2
  DEF BgThread, Abort, Checkpoints, BgRuns, Browse, Lookup, ProbeMetadata,
      NameFromProbe, MergeListened, TruncateFinal, FillFinal, FailFinal

\* No thread starts or ends out of turn.
LEMMA ThreadControlStep ==
  TypeOK /\ ThreadControl /\ [Next]_vars => ThreadControl'
<1> SUFFICES ASSUME TypeOK, ThreadControl, [Next]_vars PROVE ThreadControl'
  OBVIOUS
<1> USE DEF ThreadControl, BgRuns, uiVars, scanVars, syncVars, diskVars
<1>1. CASE UserInterface
  BY <1>1, UserInterfaceFrame
<1>2. CASE DiscoveryThread
  <2>1. CASE BeginScan
    BY <2>1 DEF BeginScan
  <2>2. CASE SnapshotActive
    BY <2>2 DEF SnapshotActive
  <2>3. CASE \E S \in SUBSET Device : ReadArpTable(S) \/ ArpSweep(S)
    BY <2>3 DEF ReadArpTable, ArpSweep
  <2>4. CASE \E H, P \in SUBSET Device : ProbeNames(H, P)
    BY <2>4 DEF ProbeNames
  <2>5. CASE MergeFound \/ TruncateEarly \/ FillEarly \/ FailEarly
    BY <2>5 DEF MergeFound, TruncateEarly, FillEarly, FailEarly
  <2>6. CASE Announce
    BY <2>6 DEF Announce
  <2>7. CASE PollFinished \/ ReceiveWhilePolling \/ FindChannelEmpty
    BY <2>7 DEF PollFinished, ReceiveWhilePolling, FindChannelEmpty
  <2>8. CASE JoinBg
    BY <2>8 DEF JoinBg, BgFinished
  <2>9. CASE JoinSync
    BY <2>9 DEF JoinSync
  <2> QED
    BY <1>2, <2>1, <2>2, <2>3, <2>4, <2>5, <2>6, <2>7, <2>8, <2>9
    DEF DiscoveryThread
<1>3. CASE SyncThread
  BY <1>3 DEF SyncThread, SyncPass, FinalSync
<1>4. CASE BgThread
  <2>1. CASE Abort
    BY <2>1 DEF Abort, Checkpoints
  <2>2. CASE FailFinal
    BY <2>2 DEF FailFinal
  <2>3. ASSUME NEW step \in DOMAIN BgNext, Proceed(step)
        PROVE  ThreadControl'
    <3>1. BgRuns
      BY <2>3, BgPcs DEF Proceed, BgNext
    <3> QED
      BY <2>3, <3>1 DEF Proceed
  <2>4. DOMAIN BgNext =
          {"browse", "lookup", "ssdp", "wsd", "inform", "http", "enrich",
           "listened", "save", "saving"}
    BY DEF BgNext
  <2> QED
    BY <1>4, <2>1, <2>2, <2>3, <2>4
    DEF BgThread, Browse, Lookup, ProbeMetadata, NameFromProbe, MergeListened,
        TruncateFinal, FillFinal
<1>5. CASE UNCHANGED vars
  BY <1>5 DEF vars
<1> QED
  BY <1>1, <1>2, <1>3, <1>4, <1>5 DEF Next

\* The threads run in turn, from the start of the program on.
THEOREM ThreadsInTurn == Spec => []ThreadControl
<1>1. Init => ThreadControl
  BY DEF Init, ThreadControl, BgRuns
<1> QED
  BY <1>1, ThreadControlStep, TypeCorrect, PTL DEF Spec

\* OneWriter: the two saves of the baseline file, in two threads, never
\* overlap.
THEOREM OneWriterHolds == Spec => []OneWriter
<1>1. ThreadControl => OneWriter
  BY DEF ThreadControl, BgRuns, OneWriter
<1> QED
  BY <1>1, ThreadsInTurn, PTL

-----------------------------------------------------------------------------
(***************************************************************************)
(* The list and the working map.                                           *)
(***************************************************************************)
\* The enrichment thread adds devices to the working map and removes none.
LEMMA BgThreadGrows ==
  ASSUME TypeOK, BgThread
  PROVE  /\ UNCHANGED <<active, dpc, signals, pending_scan, started, requests,
                         ready, spc, sync_stop>>
         /\ Known(active_dash) \subseteq Known(active_dash')
<1>t. active_dash \in DeviceMaps
  BY DEF TypeOK
<1>n. \A S : Found(S, "named") \in DeviceMaps
  BY FreshMaps DEF Name
<1>p. ASSUME NEW step, Proceed(step)
      PROVE  UNCHANGED <<active, dpc, signals, pending_scan, started, requests,
                         ready, spc, sync_stop>>
  BY <1>p DEF Proceed, uiVars, scanVars, syncVars
<1>1. CASE Abort
  BY <1>1 DEF Abort, uiVars, scanVars, syncVars
<1>2. ASSUME NEW S \in SUBSET Device, Browse(S)
      PROVE  Known(active_dash) \subseteq Known(active_dash')
  BY <1>2, <1>t, <1>n, OverlayMaps DEF Browse
<1>3. ASSUME NEW S \in SUBSET Device, Lookup(S)
      PROVE  Known(active_dash) \subseteq Known(active_dash')
  BY <1>3, <1>t, NamingMaps DEF Lookup
<1>4. ASSUME NEW S \in SUBSET Device, NameFromProbe(S)
      PROVE  Known(active_dash) \subseteq Known(active_dash')
  BY <1>4, <1>t, NamingMaps DEF NameFromProbe
<1>5. ASSUME NEW S \in SUBSET Device, MergeListened(S)
      PROVE  Known(active_dash) \subseteq Known(active_dash')
  BY <1>5, <1>t, <1>n, NamingMaps, OverlayMaps DEF MergeListened
<1>6. CASE ProbeMetadata \/ TruncateFinal \/ FillFinal
  BY <1>6, <1>p DEF ProbeMetadata, TruncateFinal, FillFinal
<1>7. CASE FailFinal
  BY <1>7 DEF FailFinal, uiVars, scanVars, syncVars
<1>8. ASSUME NEW S \in SUBSET Device,
             Browse(S) \/ Lookup(S) \/ NameFromProbe(S) \/ MergeListened(S)
      PROVE  UNCHANGED <<active, dpc, signals, pending_scan, started, requests,
                         ready, spc, sync_stop>>
  BY <1>8, <1>p DEF Browse, Lookup, NameFromProbe, MergeListened
<1> QED
  BY <1>1, <1>2, <1>3, <1>4, <1>5, <1>6, <1>7, <1>8 DEF BgThread

\* The discovery thread leaves the list alone and removes devices from the
\* working map when it replaces it, before the sync thread is spawned, and
\* when it drops it, after that thread was joined.
LEMMA DiscoveryThreadGrows ==
  ASSUME TypeOK, DiscoveryThread
  PROVE  /\ active' = active
         /\ \/ SnapshotActive
            \/ JoinSync
            \/ Known(active_dash) \subseteq Known(active_dash') /\ spc' = spc
<1> USE DEF uiVars, scanVars, syncVars
<1>1. CASE BeginScan \/ SnapshotActive \/ JoinSync
  BY <1>1 DEF BeginScan, SnapshotActive, JoinSync
<1>2. CASE \E S \in SUBSET Device : ReadArpTable(S) \/ ArpSweep(S)
  BY <1>2 DEF ReadArpTable, ArpSweep
<1>3. CASE \E H, P \in SUBSET Device : ProbeNames(H, P)
  BY <1>3 DEF ProbeNames
<1>4. CASE MergeFound
  BY <1>4, OverlayMaps, MergeMaps DEF MergeFound, TypeOK
<1>5. CASE TruncateEarly \/ FillEarly \/ FailEarly
  BY <1>5 DEF TruncateEarly, FillEarly, FailEarly
<1>6. CASE Announce \/ PollFinished
  BY <1>6 DEF Announce, PollFinished
<1>7. CASE ReceiveWhilePolling \/ FindChannelEmpty \/ JoinBg
  BY <1>7 DEF ReceiveWhilePolling, FindChannelEmpty, JoinBg
<1> QED
  BY <1>1, <1>2, <1>3, <1>4, <1>5, <1>6, <1>7 DEF DiscoveryThread

\* A pass of the sync thread removes nothing from the list: the working map
\* never falls behind it.
LEMMA PublishedIsKnownStep ==
  TypeOK /\ PublishedIsKnown /\ [Next]_vars => PublishedIsKnown'
<1> SUFFICES ASSUME TypeOK, PublishedIsKnown, [Next]_vars, spc' = "run"
             PROVE  Known(active') \subseteq Known(active_dash')
  BY DEF PublishedIsKnown, Known
<1> USE DEF PublishedIsKnown
<1>1. CASE UserInterface
  <2>1. /\ Known(active') = Known(active)
        /\ active_dash' = active_dash /\ spc' = spc
    BY <1>1, UserInterfaceFrame DEF syncVars
  <2> QED
    BY <2>1
<1>2. CASE DiscoveryThread
  <2>1. CASE SnapshotActive
    BY <2>1 DEF SnapshotActive
  <2>2. CASE JoinSync
    BY <2>2 DEF JoinSync, syncVars
  <2> QED
    BY <1>2, <2>1, <2>2, DiscoveryThreadGrows
<1>3. CASE SyncThread
  BY <1>3 DEF SyncThread, SyncPass, FinalSync, Publish
<1>4. CASE BgThread
  BY <1>4, BgThreadGrows
<1>5. CASE UNCHANGED vars
  BY <1>5 DEF vars, syncVars
<1> QED
  BY <1>1, <1>2, <1>3, <1>4, <1>5 DEF Next

\* PublishedIsKnown: what the sync thread deletes from the list is nothing.
THEOREM PublishedIsKnownHolds == Spec => []PublishedIsKnown
<1>1. Init => PublishedIsKnown
  BY DEF Init, PublishedIsKnown
<1> QED
  BY <1>1, PublishedIsKnownStep, TypeCorrect, PTL DEF Spec

\* Only the sync thread changes which devices the list has.
LEMMA ListGrows ==
  TypeOK /\ PublishedIsKnown /\ [Next]_vars =>
    Known(active) \subseteq Known(active')
<1> SUFFICES ASSUME TypeOK, PublishedIsKnown, [Next]_vars
             PROVE  Known(active) \subseteq Known(active')
  OBVIOUS
<1>1. CASE UserInterface
  BY <1>1, UserInterfaceFrame
<1>2. CASE DiscoveryThread
  BY <1>2, DiscoveryThreadGrows
<1>3. CASE SyncThread
  BY <1>3 DEF SyncThread, SyncPass, FinalSync, Publish, PublishedIsKnown
<1>4. CASE BgThread
  BY <1>4, BgThreadGrows
<1>5. CASE UNCHANGED vars
  BY <1>5 DEF vars
<1> QED
  BY <1>1, <1>2, <1>3, <1>4, <1>5 DEF Next

\* DevicesNeverVanish: a device that was listed stays listed.
THEOREM DevicesNeverVanishHolds == Spec => DevicesNeverVanish
<1>1. TypeOK /\ PublishedIsKnown /\ [Next]_vars =>
        [Known(active) \subseteq Known(active')]_vars
  BY ListGrows
<1> QED
  BY <1>1, TypeCorrect, PublishedIsKnownHolds, PTL DEF Spec, DevicesNeverVanish

\* Once the sync thread ended, nothing is added to the working map and
\* nothing is taken from the list.
LEMMA ScanIsPublishedStep ==
  TypeOK /\ ThreadControl /\ ScanIsPublished /\ [Next]_vars =>
    ScanIsPublished'
<1> SUFFICES ASSUME TypeOK, ThreadControl, ScanIsPublished, [Next]_vars,
                    dpc' = "join_sync", spc' = "done"
             PROVE  Known(active') = Known(active_dash')
  BY DEF ScanIsPublished, Known
<1> USE DEF ScanIsPublished, ThreadControl
<1>1. CASE UserInterface
  <2>1. /\ Known(active') = Known(active)
        /\ active_dash' = active_dash /\ spc' = spc /\ dpc' = dpc
    BY <1>1, UserInterfaceFrame DEF syncVars
  <2> QED
    BY <2>1
<1>2. CASE DiscoveryThread
  <2>1. CASE JoinBg
    BY <2>1 DEF JoinBg
  <2>2. ~JoinBg => dpc' # "join_sync"
    <3>1. ASSUME NEW S \in SUBSET Device, ReadArpTable(S) \/ ArpSweep(S)
          PROVE  dpc' # "join_sync"
      BY <3>1 DEF ReadArpTable, ArpSweep
    <3>2. ASSUME NEW H \in SUBSET Device, NEW P \in SUBSET Device,
                 ProbeNames(H, P)
          PROVE  dpc' # "join_sync"
      BY <3>2 DEF ProbeNames
    <3> QED
      BY <1>2, <3>1, <3>2
      DEF DiscoveryThread, BeginScan, SnapshotActive, MergeFound,
          TruncateEarly, FillEarly, FailEarly, Announce, PollFinished,
          ReceiveWhilePolling, FindChannelEmpty, JoinSync
  <2> QED
    BY <2>1, <2>2
<1>3. CASE SyncThread
  BY <1>3 DEF SyncThread, SyncPass, FinalSync, Publish
<1>4. CASE BgThread
  <2>1. BgRuns
    BY <1>4, BgThreadRuns
  <2>2. dpc' = dpc
    BY <1>4, BgThreadGrows
  <2> QED
    BY <2>1, <2>2 DEF BgRuns
<1>5. CASE UNCHANGED vars
  BY <1>5 DEF vars, syncVars
<1> QED
  BY <1>1, <1>2, <1>3, <1>4, <1>5 DEF Next

\* ScanIsPublished: no device of a scan is lost when its map is dropped.
THEOREM ScanIsPublishedHolds == Spec => []ScanIsPublished
<1>1. Init => ScanIsPublished
  BY DEF Init, ScanIsPublished
<1> QED
  BY <1>1, ScanIsPublishedStep, TypeCorrect, ThreadsInTurn, PTL DEF Spec

-----------------------------------------------------------------------------
(***************************************************************************)
(* The requests.                                                           *)
(***************************************************************************)
\* Each request is in the channel, postponed, or begun.
LEMMA RequestsConservedStep ==
  TypeOK /\ ThreadControl /\ RequestsConserved /\ [Next]_vars => RequestsConserved'
<1> SUFFICES ASSUME TypeOK, ThreadControl, RequestsConserved, [Next]_vars
             PROVE  RequestsConserved'
  OBVIOUS
<1>t. /\ requests \in Nat /\ signals \in Nat /\ started \in Nat
      /\ pending_scan \in BOOLEAN
  BY MaxRequestsAssumption DEF TypeOK
<1>u. UNCHANGED <<requests, signals, started, pending_scan>> =>
        RequestsConserved'
  BY DEF RequestsConserved
<1> USE DEF uiVars, scanVars
<1>1. CASE UserInterface
  <2>1. CASE SendScanNow
    BY <1>t, <1>1, <2>1, UserInterfaceFrame DEF SendScanNow, RequestsConserved
  <2>2. ASSUME NEW d \in Device, HearPassive(d) \/ HearDhcpHostname(d)
        PROVE  UNCHANGED <<requests, signals>>
    BY <2>2 DEF HearPassive, HearDhcpHostname
  <2>3. CASE ~SendScanNow
    BY <1>u, <1>1, <2>2, <2>3, UserInterfaceFrame
    DEF UserInterface, PressScan, AutoScan, ToggleAutoScan, DrainReady
  <2> QED
    BY <2>1, <2>3
<1>2. CASE DiscoveryThread
  <2>1. CASE BeginScan
    <3>1. CASE pending_scan
      BY <1>t, <2>1, <3>1 DEF BeginScan, RequestsConserved
    <3>2. CASE ~pending_scan
      BY <1>t, <2>1, <3>2 DEF BeginScan, RequestsConserved
    <3> QED
      BY <3>1, <3>2
  <2>2. CASE ReceiveWhilePolling
    <3>1. ~pending_scan
      BY <2>2 DEF ReceiveWhilePolling, ThreadControl
    <3> QED
      BY <1>t, <2>2, <3>1 DEF ReceiveWhilePolling, RequestsConserved
  <2>3. CASE SnapshotActive \/ MergeFound
    BY <1>u, <2>3 DEF SnapshotActive, MergeFound
  <2>8. CASE TruncateEarly \/ FillEarly \/ FailEarly
    BY <1>u, <2>8 DEF TruncateEarly, FillEarly, FailEarly
  <2>4. CASE Announce \/ PollFinished \/ FindChannelEmpty
    BY <1>u, <2>4 DEF Announce, PollFinished, FindChannelEmpty
  <2>5. CASE JoinBg \/ JoinSync
    BY <1>u, <2>5 DEF JoinBg, JoinSync
  <2>6. CASE \E S \in SUBSET Device : ReadArpTable(S) \/ ArpSweep(S)
    BY <1>u, <2>6 DEF ReadArpTable, ArpSweep
  <2>7. CASE \E H, P \in SUBSET Device : ProbeNames(H, P)
    BY <1>u, <2>7 DEF ProbeNames
  <2> QED
    BY <1>2, <2>1, <2>2, <2>3, <2>4, <2>5, <2>6, <2>7, <2>8
    DEF DiscoveryThread
<1>3. CASE SyncThread
  BY <1>u, <1>3 DEF SyncThread, SyncPass, FinalSync
<1>4. CASE BgThread
  BY <1>u, <1>4, BgThreadGrows
<1>5. CASE UNCHANGED vars
  BY <1>u, <1>5 DEF vars
<1> QED
  BY <1>1, <1>2, <1>3, <1>4, <1>5 DEF Next

\* RequestsConserved: no request is lost or served twice.
THEOREM RequestsConservedHolds == Spec => []RequestsConserved
<1>1. Init => RequestsConserved
  BY DEF Init, RequestsConserved
<1> QED
  BY <1>1, RequestsConservedStep, TypeCorrect, ThreadsInTurn, PTL DEF Spec

-----------------------------------------------------------------------------
(***************************************************************************)
(* The baseline file.                                                      *)
(***************************************************************************)
\* The file changes in the steps of a save only.
LEMMA DiskFrame ==
  ASSUME [Next]_vars
  PROVE  \/ TruncateEarly \/ FillEarly \/ FailEarly
         \/ TruncateFinal \/ FillFinal \/ FailFinal
         \/ UNCHANGED <<disk, torn>>
<1> USE DEF diskVars
<1>1. CASE UserInterface
  BY <1>1 DEF UserInterface, PressScan, ToggleAutoScan, AutoScan, DrainReady,
              HearPassive, HearDhcpHostname
<1>2. CASE DiscoveryThread
  <2>1. ASSUME NEW S \in SUBSET Device, ReadArpTable(S) \/ ArpSweep(S)
        PROVE  UNCHANGED <<disk, torn>>
    BY <2>1 DEF ReadArpTable, ArpSweep
  <2>2. ASSUME NEW H \in SUBSET Device, NEW P \in SUBSET Device,
               ProbeNames(H, P)
        PROVE  UNCHANGED <<disk, torn>>
    BY <2>2 DEF ProbeNames
  <2> QED
    BY <1>2, <2>1, <2>2
    DEF DiscoveryThread, BeginScan, SnapshotActive, MergeFound, Announce,
        PollFinished, ReceiveWhilePolling, FindChannelEmpty, JoinBg, JoinSync
<1>3. CASE SyncThread
  BY <1>3 DEF SyncThread, SyncPass, FinalSync
<1>4. CASE BgThread
  BY <1>4 DEF BgThread, Abort, Browse, Lookup, ProbeMetadata, NameFromProbe,
              MergeListened
<1>5. CASE UNCHANGED vars
  BY <1>5 DEF vars
<1> QED
  BY <1>1, <1>2, <1>3, <1>4, <1>5 DEF Next

\* A save that fails leaves the file alone, or broken.
LEMMA FailedSave ==
  ASSUME FailEarly \/ FailFinal
  PROVE  torn' \/ UNCHANGED <<disk, torn>>
BY DEF FailEarly, FailFinal, Fail

\* While a scan can save, its working map knows what the list shows.
LEMMA SaverKnowsList ==
  ASSUME ThreadControl, PublishedIsKnown, dpc = "saving" \/ bpc = "saving"
  PROVE  Known(active) \subseteq Known(active_dash)
BY DEF ThreadControl, BgRuns, PublishedIsKnown

\* SavesKeepSession: a save keeps every device of the file that is listed.
THEOREM SavesKeepSessionHolds == Spec => SavesKeepSession
<1> DEFINE Kept == ~torn' => (Known(active) \cap disk) \ Fe80 \subseteq disk'
<1>1. ThreadControl /\ PublishedIsKnown /\ [Next]_vars => [Kept]_vars
  <2> SUFFICES ASSUME ThreadControl, PublishedIsKnown, [Next]_vars
               PROVE  Kept
    OBVIOUS
  <2>1. CASE TruncateEarly \/ TruncateFinal \/ UNCHANGED <<disk, torn>>
    BY <2>1 DEF TruncateEarly, TruncateFinal, Truncate
  <2>2. CASE FailEarly \/ FailFinal
    BY <2>2, FailedSave
  <2>3. CASE FillEarly \/ FillFinal
    <3>1. Known(active) \subseteq Known(active_dash)
      BY <2>3, SaverKnowsList DEF FillEarly, FillFinal, Proceed
    <3>2. disk' \in SavedKeys(active_dash)
      BY <2>3 DEF FillEarly, FillFinal, Fill
    <3> QED
      BY <3>1, <3>2 DEF SavedKeys
  <2> QED
    BY <2>1, <2>2, <2>3, DiskFrame
<1> QED
  BY <1>1, ThreadsInTurn, PublishedIsKnownHolds, PTL DEF Spec, SavesKeepSession

\* Between the early save and the Ready status the file holds the scan, unless
\* that save failed.
SavedBeforeReady ==
  dpc = "announce" =>
    unsaved \/ (~torn /\ Known(active_dash) \ Fe80 \subseteq disk)

\* Nobody adds a device to the scan between its save and its status.
LEMMA SavedBeforeReadyStep ==
  TypeOK /\ ThreadControl /\ SavedBeforeReady /\ [Next]_vars =>
    SavedBeforeReady'
<1> SUFFICES ASSUME TypeOK, ThreadControl, SavedBeforeReady, [Next]_vars,
                    dpc' = "announce"
             PROVE  \/ unsaved'
                    \/ ~torn' /\ Known(active_dash') \ Fe80 \subseteq disk'
  BY DEF SavedBeforeReady, Known
<1> USE DEF SavedBeforeReady, diskVars
<1>1. CASE UserInterface
  BY <1>1, UserInterfaceFrame
<1>2. CASE DiscoveryThread
  <2>1. FillEarly \/ FailEarly
    <3>1. ASSUME NEW S \in SUBSET Device, ReadArpTable(S) \/ ArpSweep(S)
          PROVE  dpc' # "announce"
      BY <3>1 DEF ReadArpTable, ArpSweep
    <3>2. ASSUME NEW H \in SUBSET Device, NEW P \in SUBSET Device,
                 ProbeNames(H, P)
          PROVE  dpc' # "announce"
      BY <3>2 DEF ProbeNames
    <3> QED
      BY <1>2, <3>1, <3>2
      DEF DiscoveryThread, BeginScan, SnapshotActive, MergeFound,
          TruncateEarly, Announce, PollFinished, ReceiveWhilePolling,
          FindChannelEmpty, JoinBg, JoinSync
  <2> QED
    BY <2>1 DEF FillEarly, Fill, FailEarly, SavedKeys
<1>3. CASE SyncThread
  BY <1>3 DEF SyncThread, SyncPass, FinalSync
<1>4. CASE BgThread
  <2>1. BgRuns
    BY <1>4, BgThreadRuns
  <2>2. dpc' = dpc
    BY <1>4, BgThreadGrows
  <2> QED
    BY <2>1, <2>2 DEF ThreadControl
<1>5. CASE UNCHANGED vars
  BY <1>5 DEF vars
<1> QED
  BY <1>1, <1>2, <1>3, <1>4, <1>5 DEF Next

\* The status is sent in one place.
LEMMA OnlyAnnounceReports ==
  ASSUME TypeOK, [Next]_vars, ready' > ready
  PROVE  Announce
<1>1. ready' # ready /\ ready' # ready - 1
  BY DEF TypeOK
<1> USE <1>1 DEF uiVars
<1>2. ~UserInterface
  BY DEF UserInterface, PressScan, ToggleAutoScan, AutoScan, DrainReady,
         HearPassive, HearDhcpHostname
<1>3. CASE DiscoveryThread
  BY <1>3 DEF DiscoveryThread, BeginScan, SnapshotActive, ReadArpTable,
              ArpSweep, ProbeNames, MergeFound, TruncateEarly, FillEarly,
              FailEarly, PollFinished, ReceiveWhilePolling, FindChannelEmpty,
              JoinBg, JoinSync
<1>4. ~SyncThread
  BY DEF SyncThread, SyncPass, FinalSync
<1>5. ~BgThread
  BY BgThreadGrows
<1> QED
  BY <1>2, <1>3, <1>4, <1>5 DEF Next, vars

\* ReadyIsSaved: the status a user waits for comes after the save.
THEOREM ReadyIsSavedHolds == Spec => ReadyIsSaved
<1>1. Init => SavedBeforeReady
  BY DEF Init, SavedBeforeReady
<1>2. Spec => []SavedBeforeReady
  BY <1>1, SavedBeforeReadyStep, TypeCorrect, ThreadsInTurn, PTL DEF Spec
<1> DEFINE Saved ==
      ready' > ready =>
        unsaved \/ (~torn /\ Known(active_dash) \ Fe80 \subseteq disk)
<1>3. TypeOK /\ SavedBeforeReady /\ [Next]_vars => [Saved]_vars
  BY OnlyAnnounceReports DEF Announce, SavedBeforeReady
<1> QED
  BY <1>2, <1>3, TypeCorrect, PTL DEF Spec, ReadyIsSaved

-----------------------------------------------------------------------------
(***************************************************************************)
(* The names.                                                              *)
(***************************************************************************)
\* `to` has the name of every device `from` has named.
KeepsNames(from, to) ==
  \A d \in Device : from[d] # Absent /\ from[d].name = "named" =>
                      to[d].name = "named"

\* The rules that write a working map keep its names.
LEMMA RulesKeepNames ==
  ASSUME NEW map \in DeviceMaps, NEW other \in DeviceMaps, NEW S, NEW R
  PROVE  /\ KeepsNames(map, map)
         /\ KeepsNames(map, MergeScan(map, other))
         /\ KeepsNames(map, Overlay(map, other))
         /\ KeepsNames(map, NameUnresolved(map, S))
         /\ KeepsNames(map, Overlay(NameUnresolved(map, S), other))
         /\ KeepsNames(map, Looked(map, S, R))
<1>1. KeepsNames(map, map)
  BY DEF KeepsNames
<1>2. KeepsNames(map, MergeScan(map, other))
  <2> SUFFICES ASSUME NEW d \in Device, map[d] # Absent, map[d].name = "named"
               PROVE  MergeScan(map, other)[d].name = "named"
    BY DEF KeepsNames
  <2>1. CASE other[d] # Absent
    BY <2>1 DEF MergeScan, Merged
  <2>2. CASE other[d] = Absent
    <3>1. \A e \in Entry : [e EXCEPT !.stale = TRUE].name = e.name
      BY DEF Entry
    <3> QED
      BY <2>2, <3>1 DEF MergeScan, DeviceMaps
  <2> QED
    BY <2>1, <2>2
<1>3. KeepsNames(map, Overlay(map, other))
  BY DEF KeepsNames, Overlay
<1>4. KeepsNames(map, NameUnresolved(map, S))
  BY DEF KeepsNames, NameUnresolved, Unresolved
<1>5. KeepsNames(map, Overlay(NameUnresolved(map, S), other))
  <2> SUFFICES ASSUME NEW d \in Device, map[d] # Absent, map[d].name = "named"
               PROVE  Overlay(NameUnresolved(map, S), other)[d].name = "named"
    BY DEF KeepsNames
  <2>1. NameUnresolved(map, S)[d] = map[d]
    BY DEF NameUnresolved, Unresolved
  <2> QED
    BY <2>1 DEF Overlay
<1>6. KeepsNames(map, Looked(map, S, R))
  BY DEF KeepsNames, Looked, Unresolved
<1> QED
  BY <1>1, <1>2, <1>3, <1>4, <1>5, <1>6

\* Between scans there is no working map.
NoMapBetweenScans == dpc \in {"idle", "snapshot"} => active_dash = EmptyMap

\* The map is made by SnapshotActive and dropped by JoinSync.
LEMMA NoMapBetweenScansStep ==
  TypeOK /\ ThreadControl /\ NoMapBetweenScans /\ [Next]_vars =>
    NoMapBetweenScans'
<1> SUFFICES ASSUME TypeOK, ThreadControl, NoMapBetweenScans, [Next]_vars,
                    dpc' \in {"idle", "snapshot"}
             PROVE  active_dash' = EmptyMap
  BY DEF NoMapBetweenScans, EmptyMap
<1> USE DEF NoMapBetweenScans
<1>1. CASE UserInterface
  BY <1>1, UserInterfaceFrame
<1>2. CASE DiscoveryThread
  <2>1. ASSUME NEW S \in SUBSET Device, ReadArpTable(S) \/ ArpSweep(S)
        PROVE  FALSE
    BY <2>1 DEF ReadArpTable, ArpSweep
  <2>2. ASSUME NEW H \in SUBSET Device, NEW P \in SUBSET Device,
               ProbeNames(H, P)
        PROVE  FALSE
    BY <2>2 DEF ProbeNames
  <2> QED
    BY <1>2, <2>1, <2>2
    DEF DiscoveryThread, BeginScan, SnapshotActive, MergeFound, TruncateEarly,
        FillEarly, FailEarly, Announce, PollFinished, ReceiveWhilePolling,
        FindChannelEmpty, JoinBg, JoinSync
<1>3. CASE SyncThread
  BY <1>3 DEF SyncThread, SyncPass, FinalSync
<1>4. CASE BgThread
  BY <1>4, BgThreadRuns, BgThreadGrows DEF ThreadControl
<1>5. CASE UNCHANGED vars
  BY <1>5 DEF vars
<1> QED
  BY <1>1, <1>2, <1>3, <1>4, <1>5 DEF Next

\* Each step but the one that drops the map keeps the names it has.
LEMMA NamesKept ==
  TypeOK /\ NoMapBetweenScans /\ [Next]_vars /\ dpc # "join_sync" =>
    KeepsNames(active_dash, active_dash')
<1> SUFFICES ASSUME TypeOK, NoMapBetweenScans, [Next]_vars, dpc # "join_sync"
             PROVE  KeepsNames(active_dash, active_dash')
  OBVIOUS
<1>t. /\ active_dash \in DeviceMaps /\ new_map \in DeviceMaps
      /\ passive_dash \in DeviceMaps
  BY DEF TypeOK
<1>n. \A S : Found(S, "named") \in DeviceMaps
  BY FreshMaps DEF Name
<1>u. active_dash' = active_dash => KeepsNames(active_dash, active_dash')
  BY <1>t, RulesKeepNames
<1>1. CASE UserInterface
  BY <1>1, <1>u, UserInterfaceFrame
<1>2. CASE DiscoveryThread
  <2>1. CASE SnapshotActive
    BY <2>1 DEF SnapshotActive, NoMapBetweenScans, EmptyMap, KeepsNames
  <2>2. CASE MergeFound
    <3>1. Overlay(new_map, passive_dash) \in DeviceMaps
      BY <1>t, OverlayMaps
    <3> QED
      BY <1>t, <2>2, <3>1, RulesKeepNames DEF MergeFound
  <2>3. ASSUME NEW S \in SUBSET Device, ReadArpTable(S) \/ ArpSweep(S)
        PROVE  active_dash' = active_dash
    BY <2>3 DEF ReadArpTable, ArpSweep
  <2>4. ASSUME NEW H \in SUBSET Device, NEW P \in SUBSET Device,
               ProbeNames(H, P)
        PROVE  active_dash' = active_dash
    BY <2>4 DEF ProbeNames
  <2>5. ~SnapshotActive /\ ~MergeFound => active_dash' = active_dash
    BY <1>2, <2>3, <2>4
    DEF DiscoveryThread, BeginScan, TruncateEarly, FillEarly, FailEarly, Announce,
        PollFinished, ReceiveWhilePolling, FindChannelEmpty, JoinBg, JoinSync
  <2> QED
    BY <1>u, <2>1, <2>2, <2>5
<1>3. CASE SyncThread
  BY <1>3, <1>u DEF SyncThread, SyncPass, FinalSync
<1>4. CASE BgThread
  <2>1. ASSUME NEW S \in SUBSET Device, Browse(S)
        PROVE  KeepsNames(active_dash, active_dash')
    BY <1>t, <1>n, <2>1, RulesKeepNames DEF Browse
  <2>2. ASSUME NEW S \in SUBSET Device, Lookup(S)
        PROVE  KeepsNames(active_dash, active_dash')
    BY <1>t, <2>2, RulesKeepNames DEF Lookup
  <2>3. ASSUME NEW S \in SUBSET Device, NameFromProbe(S)
        PROVE  KeepsNames(active_dash, active_dash')
    BY <1>t, <2>3, RulesKeepNames DEF NameFromProbe
  <2>4. ASSUME NEW S \in SUBSET Device, MergeListened(S)
        PROVE  KeepsNames(active_dash, active_dash')
    BY <1>t, <1>n, <2>4, RulesKeepNames DEF MergeListened
  <2>5. CASE Abort \/ ProbeMetadata \/ TruncateFinal \/ FillFinal
             \/ FailFinal
    BY <1>u, <2>5 DEF Abort, ProbeMetadata, TruncateFinal, FillFinal, FailFinal
  <2> QED
    BY <1>4, <2>1, <2>2, <2>3, <2>4, <2>5 DEF BgThread
<1>5. CASE UNCHANGED vars
  BY <1>5, <1>u DEF vars
<1> QED
  BY <1>1, <1>2, <1>3, <1>4, <1>5 DEF Next

\* ScanKeepsNames: a name in the working map is kept while the scan lasts.
THEOREM ScanKeepsNamesHolds == Spec => ScanKeepsNames
<1>1. Init => NoMapBetweenScans
  BY DEF Init, NoMapBetweenScans
<1>2. Spec => []NoMapBetweenScans
  BY <1>1, NoMapBetweenScansStep, TypeCorrect, ThreadsInTurn, PTL DEF Spec
<1> DEFINE Kept == dpc # "join_sync" =>
                     \A d \in Device :
                       active_dash[d] # Absent /\ active_dash[d].name = "named"
                         => active_dash'[d].name = "named"
<1>3. TypeOK /\ NoMapBetweenScans /\ [Next]_vars => [Kept]_vars
  BY NamesKept DEF KeepsNames
<1> QED
  BY <1>2, <1>3, TypeCorrect, PTL DEF Spec, ScanKeepsNames

\* Every device that shows "Resolving..." and can be looked up is in S.
Awaited(map, S) ==
  \A d \in Resolvable : map[d] # Absent /\ map[d].name = "resolving" => d \in S

\* The rules of the enrichment add no "Resolving...", and a lookup of every
\* device that awaits one leaves none.
LEMMA RulesAwait ==
  ASSUME NEW map \in DeviceMaps, NEW S, NEW T, NEW R, Awaited(map, S)
  PROVE  /\ Awaited(NameUnresolved(map, T), S)
         /\ Awaited(Overlay(map, Found(T, "named")), S)
         /\ Awaited(Overlay(NameUnresolved(map, T), Found(T, "named")), S)
         /\ Awaited(Looked(map, S, R), {})
<1>d. \A d \in Resolvable : d \in Device
  BY DeviceAssumption
<1>e. \A e \in Entry, n \in Name : [e EXCEPT !.name = n].name = n
  BY DEF Entry
<1>f. \A d \in Device : Found(T, "named")[d] # Absent =>
                         Found(T, "named")[d].name = "named"
  BY DEF Found, Seen
<1>1. Awaited(NameUnresolved(map, T), S)
  BY <1>d, <1>e DEF Awaited, NameUnresolved, Unresolved, DeviceMaps, Name
<1>2. Awaited(Overlay(map, Found(T, "named")), S)
  BY <1>d, <1>f DEF Awaited, Overlay
<1>3. Awaited(Overlay(NameUnresolved(map, T), Found(T, "named")), S)
  BY <1>d, <1>f, <1>1 DEF Awaited, Overlay
<1>4. Awaited(Looked(map, S, R), {})
  <2> SUFFICES ASSUME NEW d \in Resolvable, map[d] # Absent
               PROVE  Looked(map, S, R)[d].name # "resolving"
    BY <1>d DEF Awaited, Looked
  <2>1. map[d] \in Entry
    BY <1>d DEF DeviceMaps
  <2>2. CASE d \notin S
    BY <1>d, <2>2 DEF Awaited, Looked
  <2>3. CASE d \in S
    BY <1>d, <1>e, <2>1, <2>3 DEF Looked, Unresolved, Name
  <2> QED
    BY <2>2, <2>3
<1> QED
  BY <1>1, <1>2, <1>3, <1>4

\* While the enrichment has not asked for names, the snapshot holds every
\* device that waits for one; afterwards none waits.
LookupControl ==
  dpc \in {"poll", "try_recv", "join_bg", "join_sync"} =>
    /\ bpc \in {"browse", "lookup"} => Awaited(active_dash, snapshot)
    /\ bpc \in {"ssdp", "wsd", "inform", "http", "enrich", "listened", "save",
                "saving", "done"} => Awaited(active_dash, {})

\* The snapshot taken when the scan is announced covers what is waiting.
LEMMA LookupControlStep ==
  TypeOK /\ LookupControl /\ [Next]_vars => LookupControl'
<1> SUFFICES ASSUME TypeOK, LookupControl, [Next]_vars PROVE LookupControl'
  OBVIOUS
<1>t. active_dash \in DeviceMaps
  BY DEF TypeOK
<1>u. UNCHANGED <<dpc, bpc, active_dash, snapshot>> => LookupControl'
  BY DEF LookupControl, Awaited
<1> USE DEF scanVars
<1>1. CASE UserInterface
  BY <1>1, <1>u, UserInterfaceFrame
<1>2. CASE DiscoveryThread
  <2>1. CASE Announce
    <3>1. Awaited(active_dash', snapshot')
      BY <2>1 DEF Announce, Awaited, Unresolved
    <3> QED
      BY <2>1, <3>1 DEF Announce, LookupControl
  <2>2. CASE PollFinished \/ FindChannelEmpty
    BY <2>2 DEF PollFinished, FindChannelEmpty, LookupControl, Awaited
  <2>3. CASE ReceiveWhilePolling \/ JoinBg
    BY <2>3 DEF ReceiveWhilePolling, JoinBg, LookupControl, Awaited
  <2>4. ASSUME NEW S \in SUBSET Device, ReadArpTable(S) \/ ArpSweep(S)
        PROVE  dpc' \in {"arp_sweep", "probe"}
    BY <2>4 DEF ReadArpTable, ArpSweep
  <2>5. ASSUME NEW H \in SUBSET Device, NEW P \in SUBSET Device,
               ProbeNames(H, P)
        PROVE  dpc' = "merge"
    BY <2>5 DEF ProbeNames
  <2>6. CASE BeginScan \/ SnapshotActive \/ MergeFound \/ TruncateEarly
             \/ FillEarly \/ FailEarly \/ JoinSync
    BY <2>6 DEF BeginScan, SnapshotActive, MergeFound, TruncateEarly,
                FillEarly, FailEarly, JoinSync, LookupControl
  <2> QED
    BY <1>2, <2>1, <2>2, <2>3, <2>4, <2>5, <2>6
    DEF DiscoveryThread, LookupControl
<1>3. CASE SyncThread
  BY <1>3, <1>u DEF SyncThread, SyncPass, FinalSync
<1>4. CASE BgThread
  <2>1. CASE Abort
    BY <2>1 DEF Abort, LookupControl
  <2>2. ASSUME NEW S \in SUBSET Device, Browse(S)
        PROVE  LookupControl'
    <3>1. /\ bpc = "browse" /\ bpc' = "lookup"
          /\ snapshot' = snapshot /\ dpc' = dpc
      BY <2>2, BgPcs DEF Browse, Proceed
    <3> QED
      BY <1>t, <2>2, <3>1, RulesAwait DEF Browse, LookupControl
  <2>3. ASSUME NEW S \in SUBSET Device, Lookup(S)
        PROVE  LookupControl'
    <3>1. bpc = "lookup" /\ bpc' = "ssdp" /\ dpc' = dpc
      BY <2>3, BgPcs DEF Lookup, Proceed
    <3> QED
      BY <1>t, <2>3, <3>1, RulesAwait DEF Lookup, LookupControl
  <2>4. ASSUME NEW S \in SUBSET Device, NameFromProbe(S)
        PROVE  LookupControl'
    <3>1. /\ bpc \in {"wsd", "http", "enrich"}
          /\ bpc' \in {"inform", "enrich", "listened"} /\ dpc' = dpc
      BY <2>4, BgPcs DEF NameFromProbe, Proceed
    <3> QED
      BY <1>t, <2>4, <3>1, RulesAwait DEF NameFromProbe, LookupControl
  <2>5. ASSUME NEW S \in SUBSET Device, MergeListened(S)
        PROVE  LookupControl'
    <3>1. bpc = "listened" /\ bpc' = "save" /\ dpc' = dpc
      BY <2>5, BgPcs DEF MergeListened, Proceed
    <3> QED
      BY <1>t, <2>5, <3>1, RulesAwait DEF MergeListened, LookupControl
  <2>6. CASE ProbeMetadata \/ TruncateFinal \/ FillFinal
    <3>1. /\ bpc \in {"ssdp", "inform", "save", "saving"}
          /\ bpc' \in {"wsd", "http", "saving", "done"}
          /\ dpc' = dpc /\ active_dash' = active_dash
      BY <2>6, BgPcs DEF ProbeMetadata, TruncateFinal, FillFinal, Proceed
    <3> QED
      BY <3>1 DEF LookupControl, Awaited
  <2>7. CASE FailFinal
    BY <2>7 DEF FailFinal, LookupControl, Awaited
  <2> QED
    BY <1>4, <2>1, <2>2, <2>3, <2>4, <2>5, <2>6, <2>7 DEF BgThread
<1>5. CASE UNCHANGED vars
  BY <1>5, <1>u DEF vars
<1> QED
  BY <1>1, <1>2, <1>3, <1>4, <1>5 DEF Next

\* LookupsSettle: a finished enrichment leaves no lookup open.
THEOREM LookupsSettleHolds == Spec => []LookupsSettle
<1>1. Init => LookupControl
  BY DEF Init, LookupControl
<1>2. LookupControl => LookupsSettle
  BY DEF LookupControl, LookupsSettle, Awaited
<1> QED
  BY <1>1, <1>2, LookupControlStep, TypeCorrect, PTL DEF Spec

-----------------------------------------------------------------------------
(***************************************************************************)
(* The abstract specification.                                             *)
(***************************************************************************)
\* Each step of the threads is a step of ScanService or leaves it as it is.
LEMMA PromiseStep ==
  TypeOK /\ ThreadControl /\ RequestsConserved /\ PublishedIsKnown
    /\ [Next]_vars => [Promise!Next]_(Promise!vars)
<1> SUFFICES ASSUME TypeOK, ThreadControl, RequestsConserved,
                    PublishedIsKnown, [Next]_vars
             PROVE  Promise!Next \/ UNCHANGED Promise!vars
  OBVIOUS
<1>t. /\ requests \in Nat /\ signals \in Nat /\ started \in Nat
      /\ pending_scan \in BOOLEAN
  BY MaxRequestsAssumption DEF TypeOK
<1>s. UNCHANGED <<requests, started, dpc, active>> => UNCHANGED Promise!vars
  BY DEF Promise!vars, Known
<1> USE DEF uiVars, scanVars
<1>1. CASE UserInterface
  <2>1. /\ started' = started /\ dpc' = dpc
        /\ Known(active') = Known(active)
    BY <1>1, UserInterfaceFrame
  <2>2. CASE SendScanNow
    BY <2>1, <2>2 DEF SendScanNow, Promise!Next, Promise!Ask
  <2>3. ASSUME NEW d \in Device, HearPassive(d) \/ HearDhcpHostname(d)
        PROVE  requests' = requests
    BY <2>3 DEF HearPassive, HearDhcpHostname
  <2>4. CASE ~SendScanNow
    <3>1. requests' = requests
      BY <1>1, <2>3, <2>4
      DEF UserInterface, PressScan, AutoScan, ToggleAutoScan, DrainReady
    <3> QED
      BY <2>1, <3>1 DEF Promise!vars
  <2> QED
    BY <2>2, <2>4
<1>2. CASE DiscoveryThread
  <2>1. CASE BeginScan
    <3>1. started < requests
      BY <1>t, <2>1 DEF BeginScan, RequestsConserved
    <3> QED
      BY <2>1, <3>1 DEF BeginScan, Promise!Next, Promise!Begin
  <2>2. CASE JoinSync
    BY <2>2 DEF JoinSync, Promise!Next, Promise!End
  <2>3. ~BeginScan /\ ~JoinSync =>
          /\ UNCHANGED <<requests, started, active>>
          /\ (dpc' # "idle") = (dpc # "idle")
    <3>1. ASSUME NEW S \in SUBSET Device, ReadArpTable(S) \/ ArpSweep(S)
          PROVE  /\ UNCHANGED <<requests, started, active>>
                 /\ dpc # "idle" /\ dpc' # "idle"
      BY <3>1 DEF ReadArpTable, ArpSweep
    <3>2. ASSUME NEW H \in SUBSET Device, NEW P \in SUBSET Device,
                 ProbeNames(H, P)
          PROVE  /\ UNCHANGED <<requests, started, active>>
                 /\ dpc # "idle" /\ dpc' # "idle"
      BY <3>2 DEF ProbeNames
    <3> QED
      BY <1>2, <3>1, <3>2
      DEF DiscoveryThread, SnapshotActive, MergeFound, TruncateEarly,
          FillEarly, FailEarly, Announce, PollFinished, ReceiveWhilePolling,
          FindChannelEmpty, JoinBg
  <2> QED
    BY <2>1, <2>2, <2>3 DEF Promise!vars, Known
<1>3. CASE SyncThread
  <2>1. UNCHANGED <<requests, started, dpc>> /\ dpc # "idle"
    BY <1>3 DEF SyncThread, SyncPass, FinalSync, ThreadControl
  <2>2. Known(active) \subseteq Known(active')
    BY ListGrows
  <2>3. Known(active') \in {Known(active) \cup S : S \in SUBSET Device}
    <3>1. Known(active') \subseteq Device
      BY DEF Known
    <3>2. Known(active') = Known(active) \cup Known(active')
      BY <2>2
    <3> QED
      BY <3>1, <3>2
  <2> QED
    BY <2>1, <2>3 DEF Promise!Next, Promise!List
<1>4. CASE BgThread
  BY <1>4, <1>s, BgThreadGrows
<1>5. CASE UNCHANGED vars
  BY <1>5, <1>s DEF vars
<1> QED
  BY <1>1, <1>2, <1>3, <1>4, <1>5 DEF Next

\* The safety part of PromiseKept: discovery implements ScanService.  What
\* must happen, its two fairness conditions, is checked with TLC.
THEOREM PromiseSafe == Spec => Promise!SafeSpec
<1>1. Init => Promise!Init
  BY DEF Init, Promise!Init, Known, EmptyMap
<1> QED
  BY <1>1, PromiseStep, TypeCorrect, ThreadsInTurn, RequestsConservedHolds,
     PublishedIsKnownHolds, PTL DEF Spec, Promise!SafeSpec

-----------------------------------------------------------------------------
(***************************************************************************)
(* What a run reported survives its end.  The invariants of one run hold   *)
(* over all of them, because a restart begins in an initial state; what    *)
(* links the runs is that the file always has what was reported.           *)
(***************************************************************************)
\* The invariants of one run the argument uses.
RunInv ==
  /\ TypeOK /\ ThreadControl /\ PublishedIsKnown /\ ScanIsPublished
  /\ SavedBeforeReady

LEMMA RunInit == Init => RunInv
<1>1. Init => TypeOK
  BY TypeInit
<1> QED
  BY <1>1 DEF Init, RunInv, ThreadControl, BgRuns, PublishedIsKnown,
              ScanIsPublished, SavedBeforeReady

LEMMA RunStep == RunInv /\ [Next]_vars => RunInv'
BY TypeStep, ThreadControlStep, PublishedIsKnownStep, ScanIsPublishedStep,
   SavedBeforeReadyStep DEF RunInv

\* A restart begins in an initial state.
LEMMA RestartInits == RunInv /\ Restart => Init'
<1> SUFFICES ASSUME RunInv, Restart PROVE Init'
  OBVIOUS
<1>1. disk' \subseteq Device
  BY DEF Restart, load_baseline, RunInv, TypeOK
<1> QED
  BY <1>1 DEF Restart, load_baseline, Init, EmptyMap

\* A device that was reported over a save is in the map the next one is made
\* from, and in the file while that is not broken.
ReportedIsHeld ==
  reported \subseteq IF dpc \in {"idle", "snapshot"} THEN Known(active)
                                                     ELSE Known(active_dash)

ReportedIsSaved == ~torn => reported \ Fe80 \subseteq disk

SessionsInv == RunInv /\ ReportedIsHeld /\ ReportedIsSaved

LEMMA SessionsInvInit == SessionsInit => SessionsInv
BY RunInit
DEF SessionsInit, SessionsInv, ReportedIsHeld, ReportedIsSaved

\* Where the discovery thread is when the maps change hands.
LEMMA HandOver ==
  ASSUME TypeOK, DiscoveryThread
  PROVE  /\ dpc \in {"idle", "snapshot"} => BeginScan \/ SnapshotActive
         /\ dpc' \in {"idle", "snapshot"} => BeginScan \/ JoinSync
<1>1. ASSUME NEW S \in SUBSET Device, ReadArpTable(S) \/ ArpSweep(S)
      PROVE  {dpc, dpc'} \cap {"idle", "snapshot"} = {}
  BY <1>1 DEF ReadArpTable, ArpSweep
<1>2. ASSUME NEW H \in SUBSET Device, NEW P \in SUBSET Device,
             ProbeNames(H, P)
      PROVE  {dpc, dpc'} \cap {"idle", "snapshot"} = {}
  BY <1>2 DEF ProbeNames
<1>3. CASE BeginScan \/ SnapshotActive \/ JoinSync
  BY <1>3 DEF BeginScan, SnapshotActive, JoinSync
<1>4. CASE MergeFound \/ TruncateEarly \/ FillEarly \/ FailEarly \/ Announce
  BY <1>4 DEF MergeFound, TruncateEarly, FillEarly, FailEarly, Announce
<1>5. CASE PollFinished \/ ReceiveWhilePolling \/ FindChannelEmpty \/ JoinBg
  BY <1>5 DEF PollFinished, ReceiveWhilePolling, FindChannelEmpty, JoinBg
<1> QED
  BY <1>1, <1>2, <1>3, <1>4, <1>5 DEF DiscoveryThread

\* No step of a run drops a reported device from the map that holds it.
LEMMA HeldStep ==
  ASSUME RunInv, ReportedIsHeld, [Next]_vars, reported' = reported
  PROVE  ReportedIsHeld'
<1> USE DEF RunInv, ReportedIsHeld
<1>1. Known(active) \subseteq Known(active')
  BY ListGrows
<1>2. CASE UserInterface
  <2>1. dpc' = dpc /\ active_dash' = active_dash
    BY <1>2, UserInterfaceFrame
  <2> QED
    BY <1>1, <2>1
<1>3. CASE DiscoveryThread
  <2>1. CASE BeginScan
    BY <1>1, <2>1 DEF BeginScan
  <2>2. CASE SnapshotActive
    BY <2>2 DEF SnapshotActive
  <2>3. CASE JoinSync
    <3>1. dpc = "join_sync" /\ spc = "done" /\ dpc' = "idle"
      BY <2>3 DEF JoinSync
    <3> QED
      BY <1>1, <3>1 DEF ScanIsPublished
  <2>4. CASE ~BeginScan /\ ~SnapshotActive /\ ~JoinSync
    BY <1>3, <2>4, HandOver, DiscoveryThreadGrows
  <2> QED
    BY <2>1, <2>2, <2>3, <2>4
<1>4. CASE SyncThread
  <2>1. dpc' = dpc /\ active_dash' = active_dash
    BY <1>4 DEF SyncThread, SyncPass, FinalSync
  <2> QED
    BY <1>1, <2>1
<1>5. CASE BgThread
  BY <1>1, <1>5, BgThreadGrows
<1>6. CASE UNCHANGED vars
  BY <1>6 DEF vars
<1> QED
  BY <1>2, <1>3, <1>4, <1>5, <1>6 DEF Next

\* No save drops one from the file.
LEMMA SavedStep ==
  ASSUME RunInv, ReportedIsHeld, ReportedIsSaved, [Next]_vars,
         reported' = reported
  PROVE  ReportedIsSaved'
<1> USE DEF RunInv, ReportedIsHeld, ReportedIsSaved
<1>1. CASE TruncateEarly \/ TruncateFinal \/ UNCHANGED <<disk, torn>>
  BY <1>1 DEF TruncateEarly, TruncateFinal, Truncate
<1>2. CASE FailEarly \/ FailFinal
  BY <1>2, FailedSave
<1>3. CASE FillEarly \/ FillFinal
  <2>1. dpc \notin {"idle", "snapshot"}
    BY <1>3 DEF FillEarly, FillFinal, Proceed, ThreadControl, BgRuns
  <2>2. disk' \in SavedKeys(active_dash)
    BY <1>3 DEF FillEarly, FillFinal, Fill
  <2> QED
    BY <2>1, <2>2 DEF SavedKeys
<1> QED
  BY <1>1, <1>2, <1>3, DiskFrame

\* The devices of a new Ready status whose save was carried out are in the map
\* and in the file.
LEMMA ReportStep ==
  ASSUME RunInv, [Next]_vars, ready' > ready, ~unsaved,
         reported' = Known(active_dash)
  PROVE  ReportedIsHeld' /\ ReportedIsSaved'
<1>1. Announce
  BY OnlyAnnounceReports DEF RunInv
<1>2. /\ dpc = "announce" /\ dpc' = "poll" /\ active_dash' = active_dash
      /\ disk' = disk
  BY <1>1 DEF Announce
<1>3. Known(active_dash') = Known(active_dash)
  BY <1>2
<1> QED
  BY <1>2, <1>3
  DEF RunInv, SavedBeforeReady, ReportedIsHeld, ReportedIsSaved

LEMMA SessionsInvStep ==
  SessionsInv /\ [SessionsNext]_allVars => SessionsInv'
<1> SUFFICES ASSUME SessionsInv, [SessionsNext]_allVars PROVE SessionsInv'
  OBVIOUS
<1> USE DEF SessionsInv
<1>1. CASE Continue
  <2>1. [Next]_vars
    BY <1>1 DEF Continue
  <2>2. CASE ready' > ready /\ ~unsaved
    BY <1>1, <2>1, <2>2, RunStep, ReportStep DEF Continue
  <2>3. CASE ~(ready' > ready /\ ~unsaved)
    BY <1>1, <2>1, <2>3, RunStep, HeldStep, SavedStep DEF Continue
  <2> QED
    BY <2>2, <2>3
<1>2. CASE Restart
  <2>1. RunInv'
    <3>1. Init'
      BY <1>2, RestartInits
    <3>2. (Init => RunInv)'
      BY RunInit, PTL
    <3> QED
      BY <3>1, <3>2
  <2> QED
    BY <1>2, <2>1 DEF Restart, ReportedIsHeld, ReportedIsSaved
<1>3. CASE UNCHANGED allVars
  BY <1>3, RunStep, HeldStep, SavedStep DEF allVars, sessionVars
<1> QED
  BY <1>1, <1>2, <1>3 DEF SessionsNext

\* ReportedSurvives: discovery.rs:2582-2603 saves before it reports, and
\* every later save holds what was reported, so a restart that can read the
\* file finds it unless it interrupted a write or a write broke off.
THEOREM ReportedSurvivesHolds == SessionsSpec => ReportedSurvives
<1> DEFINE Survives == session' # session /\ ~torn /\ readable' =>
                         reported \ Fe80 \subseteq baseline_ips'
<1>1. SessionsSpec => []SessionsInv
  BY SessionsInvInit, SessionsInvStep, PTL DEF SessionsSpec
<1>2. SessionsInv /\ [SessionsNext]_allVars => [Survives]_allVars
  <2> SUFFICES ASSUME SessionsInv, [SessionsNext]_allVars,
                      session' # session, ~torn, readable'
               PROVE  reported \ Fe80 \subseteq baseline_ips'
    OBVIOUS
  <2>1. Restart
    BY DEF SessionsNext, Continue, allVars, sessionVars
  <2> QED
    BY <2>1 DEF Restart, load_baseline, SessionsInv, ReportedIsSaved
<1> QED
  BY <1>1, <1>2, PTL DEF SessionsSpec, ReportedSurvives
=============================================================================
