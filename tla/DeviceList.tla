----------------------------- MODULE DeviceList -----------------------------
(***************************************************************************)
(* The list of discovered devices under a reader: sorted by address, with  *)
(* a heading above each IPv4 subnet and a blank line between two of them.  *)
(* The offset of a reader counts lines, its limit counts devices.          *)
(* An IPv4 address is its 32-bit number, an IPv6 address any larger one:   *)
(* the order of Rust's IpAddr.                                             *)
(***************************************************************************)
EXTENDS Naturals, Sequences, FiniteSets

CONSTANTS
  DeviceAddr,   \* addresses a scan may find, above zero
  FirstV6,      \* 2^32
  SubnetSize,   \* 256 addresses of one /24
  DeviceRows    \* height of the panel inside its border

VARIABLES
  scan_has_run,
  active_discovery,        \* the listed devices, as the filter sees them
  discovery_filter,
  discovery_scroll,
  discovery_paused_scroll

devicesView == <<scan_has_run, active_discovery, discovery_filter, discovery_scroll,
                 discovery_paused_scroll>>

\* Is there a name after clean_hostname, and a vendor other than "Unknown".
Look == [named : BOOLEAN, vendor : BOOLEAN]

ListInit ==
  /\ scan_has_run = FALSE
  /\ active_discovery = <<>>
  /\ discovery_filter = "all"
  /\ discovery_scroll = 0
  /\ discovery_paused_scroll = FALSE

-----------------------------------------------------------------------------
(***************************************************************************)
(* What the panel shows.                                                   *)
(***************************************************************************)
Passes(look) ==
  CASE discovery_filter = "all"     -> TRUE
    [] discovery_filter = "named"   -> look.named
    [] discovery_filter = "vendors" -> look.vendor
    [] discovery_filter = "unknown" -> ~look.named /\ ~look.vendor

Listed == {d \in DOMAIN active_discovery : Passes(active_discovery[d])}

Subnet(d) == d \div SubnetSize

SubnetsOf(S) == {Subnet(d) : d \in {e \in S : e < FirstV6}}

Subnets == SubnetsOf(Listed)

\* A line is the address of a device, or this: a heading, a blank line, a note.
NoDevice == 0

\* The lines that belong to subnets: a heading for each, a blank line between two.
Headings(subnets) ==
  LET n == Cardinality(subnets) IN IF n = 0 THEN 0 ELSE 2 * n - 1

\* The highest address is on top: a device stands below those above it and the
\* headings of all subnets down to its own.
Line(d) ==
  LET down == {e \in Listed : d <= e}
  IN Cardinality(down) + Headings(SubnetsOf(down))

\* An empty list, and one before the first scan, is a note (of one line here).
Lines ==
  IF ~scan_has_run \/ Listed = {} THEN <<NoDevice>>
  ELSE [l \in 1..(Cardinality(Listed) + Headings(Subnets)) |->
          IF \E d \in Listed : Line(d) = l THEN CHOOSE d \in Listed : Line(d) = l
                                          ELSE NoDevice]

MaxScroll == IF Len(Lines) > DeviceRows THEN Len(Lines) - DeviceRows ELSE 0

\* The lines a reader at this offset sees; the last of them asks to press Space
\* and stands where a device was.
VisibleAt(scroll) ==
  LET back == IF scroll < MaxScroll THEN scroll ELSE MaxScroll
      skip == MaxScroll - back
      rows == SubSeq(Lines, skip + 1, IF skip + DeviceRows < Len(Lines)
                                        THEN skip + DeviceRows ELSE Len(Lines))
  IN IF scroll = 0 \/ rows = <<>> THEN rows
     ELSE [rows EXCEPT ![Len(rows)] = NoDevice]

-----------------------------------------------------------------------------
\* Alt+S.
PressScan ==
  /\ scan_has_run' = TRUE
  /\ UNCHANGED <<active_discovery, discovery_filter, discovery_scroll,
                 discovery_paused_scroll>>

\* A pass of the sync thread, under the lock: it adds the devices of S or
\* changes what is known of them.  The offset does not follow.
SyncDevices(S, look) ==
  /\ scan_has_run
  /\ active_discovery' = [d \in DOMAIN active_discovery \cup S |->
                            IF d \in S THEN look ELSE active_discovery[d]]
  /\ UNCHANGED <<scan_has_run, discovery_filter, discovery_scroll,
                 discovery_paused_scroll>>

\* (bug) The rows of the panel are taken off, the headings are not counted.
ScrollLimit_Screen ==
  LET n == Cardinality(DOMAIN active_discovery)
  IN IF n > DeviceRows THEN n - DeviceRows ELSE 0

\* One less than the devices, whatever the filter and the headings.
ScrollLimit ==
  LET n == Cardinality(DOMAIN active_discovery)
  IN IF n = 0 THEN 0 ELSE n - 1

ScrollUp ==
  /\ discovery_scroll < ScrollLimit
  /\ discovery_paused_scroll' = TRUE
  /\ discovery_scroll' = discovery_scroll + 1
  /\ UNCHANGED <<scan_has_run, active_discovery, discovery_filter>>

ScrollDown ==
  /\ discovery_scroll' = IF discovery_scroll = 0 THEN 0 ELSE discovery_scroll - 1
  /\ discovery_paused_scroll' = (discovery_scroll' # 0)
  /\ UNCHANGED <<scan_has_run, active_discovery, discovery_filter>>

ResumeScroll ==
  /\ discovery_scroll' = 0
  /\ discovery_paused_scroll' = FALSE
  /\ UNCHANGED <<scan_has_run, active_discovery, discovery_filter>>

CycleFilter ==
  /\ discovery_filter' = [all |-> "named", named |-> "vendors",
                          vendors |-> "unknown", unknown |-> "all"][discovery_filter]
  /\ UNCHANGED <<scan_has_run, active_discovery, discovery_scroll,
                 discovery_paused_scroll>>

ListNext ==
  \/ PressScan
  \/ \E S \in SUBSET DeviceAddr \ {{}}, look \in Look : SyncDevices(S, look)
  \/ ScrollUp
  \/ ScrollDown
  \/ ResumeScroll
  \/ CycleFilter
=============================================================================
