--------------------------- MODULE DeviceMapProofs ---------------------------
(***************************************************************************)
(* The rules of DeviceMap, for every set of devices: each yields a map,    *)
(* and none loses a device.                                                *)
(***************************************************************************)
EXTENDS DeviceMap, TLAPS

\* The empty map and freshly written entries are maps.
LEMMA FreshMaps ==
  /\ EmptyMap \in DeviceMaps
  /\ \A S, n : n \in Name => Found(S, n) \in DeviceMaps
BY DEF EmptyMap, DeviceMaps, Found, Seen, Entry

\* Laying one map over another yields a map that knows the devices of both.
LEMMA OverlayMaps ==
  ASSUME NEW over \in DeviceMaps, NEW under \in DeviceMaps
  PROVE  /\ Overlay(over, under) \in DeviceMaps
         /\ Known(Overlay(over, under)) = Known(over) \cup Known(under)
BY DEF Overlay, DeviceMaps, Known

\* Naming, renaming and looking up change names, never the set of devices.
LEMMA NamingMaps ==
  ASSUME NEW map \in DeviceMaps, NEW S, NEW R
  PROVE  /\ NameUnresolved(map, S) \in DeviceMaps
         /\ Known(NameUnresolved(map, S)) = Known(map)
         /\ Rename(map, S) \in DeviceMaps
         /\ Known(Rename(map, S)) = Known(map)
         /\ Looked(map, S, R) \in DeviceMaps
         /\ Known(Looked(map, S, R)) = Known(map)
<1>1. ASSUME NEW d \in Device, map[d] # Absent
      PROVE  /\ map[d] \in Entry
             /\ \A n \in Name : [map[d] EXCEPT !.name = n] \in Entry
  BY <1>1 DEF DeviceMaps, Entry
<1>2. "named" \in Name /\ "dash" \in Name
  BY DEF Name
<1>3. \A e \in Entry : e # Absent
  BY DeviceAssumption
<1>4. NameUnresolved(map, S) \in DeviceMaps
  BY <1>1, <1>2 DEF NameUnresolved, DeviceMaps
<1>5. Rename(map, S) \in DeviceMaps
  BY <1>1, <1>2 DEF Rename, DeviceMaps
<1>6. Looked(map, S, R) \in DeviceMaps
  BY <1>1, <1>2 DEF Looked, DeviceMaps
<1>7. Known(NameUnresolved(map, S)) = Known(map)
  BY <1>1, <1>2, <1>3 DEF NameUnresolved, Known
<1>8. Known(Rename(map, S)) = Known(map)
  BY <1>1, <1>2, <1>3 DEF Rename, Known
<1>9. Known(Looked(map, S, R)) = Known(map)
  BY <1>1, <1>2, <1>3 DEF Looked, Known
<1> QED
  BY <1>4, <1>5, <1>6, <1>7, <1>8, <1>9

\* The merge of a scan keeps every cached device and adds the found ones.
LEMMA MergeMaps ==
  ASSUME NEW cache \in DeviceMaps, NEW found \in DeviceMaps
  PROVE  /\ MergeScan(cache, found) \in DeviceMaps
         /\ Known(MergeScan(cache, found)) = Known(cache) \cup Known(found)
<1> DEFINE m == MergeScan(cache, found)
<1>1. ASSUME NEW d \in Device
      PROVE  /\ m[d] \in Entry \cup {Absent}
             /\ m[d] # Absent <=> cache[d] # Absent \/ found[d] # Absent
  <2>1. CASE found[d] # Absent /\ cache[d] = Absent
    BY <2>1 DEF MergeScan, Merged, DeviceMaps
  <2>2. CASE found[d] # Absent /\ cache[d] # Absent
    <3>1. found[d] \in Entry /\ cache[d] \in Entry
      BY <2>2 DEF DeviceMaps
    <3>2. Merged(cache[d], found[d]) \in Entry
      BY <3>1, <2>2 DEF Merged, Entry, Name
    <3> QED
      BY <3>2, <2>2, DeviceAssumption DEF MergeScan
  <2>3. CASE found[d] = Absent /\ cache[d] # Absent
    <3>1. ASSUME NEW e \in Entry
          PROVE  [e EXCEPT !.stale = TRUE] \in Entry
      BY DEF Entry
    <3>2. [cache[d] EXCEPT !.stale = TRUE] \in Entry
      BY <2>3, <3>1 DEF DeviceMaps
    <3> QED
      BY <3>2, <2>3, DeviceAssumption DEF MergeScan
  <2>4. CASE found[d] = Absent /\ cache[d] = Absent
    BY <2>4 DEF MergeScan
  <2> QED
    BY <2>1, <2>2, <2>3, <2>4
<1>2. m \in DeviceMaps
  BY <1>1 DEF MergeScan, DeviceMaps
<1> QED
  BY <1>1, <1>2 DEF Known
=============================================================================
