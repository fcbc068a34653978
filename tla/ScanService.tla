----------------------------- MODULE ScanService -----------------------------
(***************************************************************************)
(* What discovery promises the user, threads and maps left out: requests   *)
(* for a scan are served one at a time, each by a scan of its own, and the *)
(* list of devices changes during a scan only, by growing.                 *)
(***************************************************************************)
EXTENDS Naturals

CONSTANTS Device, MaxRequests

VARIABLES
  asked,    \* scans asked for
  served,   \* scans begun
  busy,     \* a scan is under way
  listed    \* devices in the list

vars == <<asked, served, busy, listed>>

Init == asked = 0 /\ served = 0 /\ busy = FALSE /\ listed = {}

Ask ==
  /\ asked < MaxRequests
  /\ asked' = asked + 1
  /\ UNCHANGED <<served, busy, listed>>

Begin ==
  /\ ~busy
  /\ served < asked
  /\ served' = served + 1
  /\ busy' = TRUE
  /\ UNCHANGED <<asked, listed>>

List ==
  /\ busy
  /\ listed' \in {listed \cup S : S \in SUBSET Device}
  /\ UNCHANGED <<asked, served, busy>>

End ==
  /\ busy
  /\ busy' = FALSE
  /\ UNCHANGED <<asked, served, listed>>

Next == Ask \/ Begin \/ List \/ End

SafeSpec == Init /\ [][Next]_vars

Spec == SafeSpec /\ WF_vars(Begin) /\ WF_vars(End)
=============================================================================
