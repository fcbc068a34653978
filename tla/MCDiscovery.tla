----------------------------- MODULE MCDiscovery -----------------------------
EXTENDS Discovery, TLC

\* The two devices of the runs that name them alike are interchangeable.
Symmetry == Permutations(Device)

\* Every variable except the two that only the [NEW] markers are made of: no
\* other variable, no action's guard and no property of the runs that use this
\* view depends on them, and no step changes them alone, so the states it
\* takes for one have the same behaviours.
Unmarked ==
  <<scan_has_run, auto_scan_enabled, requests, signals, ready, active, passive,
    dpc, scanVars, active_dash, bpc, syncVars, diskVars>>
=============================================================================
