------------------------------ MODULE DeviceMap ------------------------------
(***************************************************************************)
(* The device maps of VORA-Recon and the rules that write them.  A map     *)
(* (HashMap or DashMap of IpAddr to DeviceInfo) is a function from Device  *)
(* to Entry or Absent.  Of a DeviceInfo the rules tell apart the hostname, *)
(* up to being a placeholder, and whether miss_count is above zero; MAC,   *)
(* vendor and time stamps decide nothing here.                             *)
(***************************************************************************)
CONSTANTS
  Device,      \* local addresses (display::is_local_ip)
  Resolvable,  \* those whose name is looked up (should_resolve_hostname)
  Fe80,        \* the link-local IPv6 ones, fe80::/16
  Absent       \* "no entry under this key"

\* "resolving" is the text "Resolving...", "dash" the text of an unknown
\* name, "named" any other text.
Name == {"resolving", "dash", "named"}

Entry == [name : Name, stale : BOOLEAN]

\* should_resolve_hostname accepts every fe80 address.
ASSUME DeviceAssumption ==
  /\ Fe80 \subseteq Resolvable
  /\ Resolvable \subseteq Device
  /\ Absent \notin Entry

DeviceMaps == [Device -> Entry \cup {Absent}]

EmptyMap == [d \in Device |-> Absent]

Known(map) == {d \in Device : map[d] # Absent}

Seen(n) == [name |-> n, stale |-> FALSE]

Unresolved(e) == e.name \in {"resolving", "dash"}

\* Entries a step writes fresh for the devices of S under the name n.
Found(S, n) == [d \in Device |-> IF d \in S THEN Seen(n) ELSE Absent]

\* The entries of `over`, and those of `under` where `over` has none.
Overlay(over, under) ==
  [d \in Device |-> IF over[d] # Absent THEN over[d] ELSE under[d]]

\* The rule shared by every late source of names: a placeholder gives way,
\* a name stays.
NameUnresolved(map, S) ==
  [d \in Device |->
     IF d \in S /\ map[d] # Absent /\ Unresolved(map[d])
       THEN [map[d] EXCEPT !.name = "named"]
       ELSE map[d]]

\* A probe answered with a hostname: it replaces whatever is there.
Rename(map, S) ==
  [d \in Device |->
     IF d \in S /\ map[d] # Absent THEN [map[d] EXCEPT !.name = "named"]
                                   ELSE map[d]]

\* (bug) The name of the scan result always wins.
Merged_Overwrite(old, new) ==
  IF old = Absent THEN new ELSE [name |-> new.name, stale |-> FALSE]

\* One scan result over one cached entry: a placeholder never replaces the
\* name the entry has, and the device counts as seen.
Merged(old, new) ==
  IF old = Absent
    THEN new
    ELSE [name  |-> IF new.name = "named" THEN "named" ELSE old.name,
          stale |-> FALSE]

\* All results of a scan over the cache: what it did not find is stale.
MergeScan(cache, found) ==
  [d \in Device |->
     IF found[d] # Absent THEN Merged(cache[d], found[d])
     ELSE IF cache[d] # Absent THEN [cache[d] EXCEPT !.stale = TRUE]
     ELSE Absent]

\* The lookups of the devices in `asked` ended, with a name for those in
\* `answered`; the others stop showing "Resolving...".
Looked(map, asked, answered) ==
  [d \in Device |->
     IF d \notin asked \/ map[d] = Absent THEN map[d]
     ELSE IF d \in answered
       THEN (IF Unresolved(map[d]) THEN [map[d] EXCEPT !.name = "named"]
                                   ELSE map[d])
     ELSE IF map[d].name = "resolving" THEN [map[d] EXCEPT !.name = "dash"]
     ELSE map[d]]

\* What a save may write: every known device, less any fe80 ones.  Which
\* fe80 entries are dropped depends on MACs the model leaves out (an fe80
\* address goes when an IPv4 entry has its MAC).
SavedKeys(map) == {Known(map) \ X : X \in SUBSET Fe80}
=============================================================================
