------------------------------- MODULE Sessions -------------------------------
(***************************************************************************)
(* Discovery over several runs of the program.  The program has no way to  *)
(* end by itself: it is killed (its console is closed), at any point, and  *)
(* started again.  Only the baseline file survives; one that was truncated *)
(* and not filled does not parse and reads as an empty baseline, and so    *)
(* does one that cannot be found or read.                                  *)
(***************************************************************************)
EXTENDS Discovery

CONSTANT MaxSessions   \* bound on the runs of the program

VARIABLES
  session,    \* the number of this run
  readable,   \* this run could read the file when it began
  reported    \* what the last Ready status of this run stood for whose save
              \* was carried out (history)

sessionVars == <<session, readable, reported>>
allVars     == <<vars, sessionVars>>

SessionsInit ==
  /\ Init
  /\ session = 1 /\ readable = (baseline_ips = disk) /\ reported = {}

Continue ==
  /\ Next
  /\ reported' =
       IF ready' > ready /\ ~unsaved THEN Known(active_dash) ELSE reported
  /\ UNCHANGED <<session, readable>>

\* What a run that can read the file finds in it.
load_baseline == IF torn THEN {} ELSE disk

\* Every variable of the process starts anew.
Restart ==
  /\ session < MaxSessions
  /\ session' = session + 1
  /\ reported' = {}
  /\ readable' \in BOOLEAN
  /\ disk' = load_baseline /\ torn' = FALSE /\ unsaved' = FALSE
  /\ scan_has_run' = FALSE /\ auto_scan_enabled' = TRUE
  /\ fresh_scan_done' = FALSE
  /\ baseline_ips' = IF readable' THEN load_baseline ELSE {}
  /\ requests' = 0 /\ signals' = 0 /\ ready' = 0
  /\ active' = EmptyMap /\ passive' = EmptyMap
  /\ dpc' = "idle" /\ pending_scan' = FALSE /\ cancel' = FALSE /\ started' = 0
  /\ passive_dash' = EmptyMap /\ active_dash' = EmptyMap
  /\ new_map' = EmptyMap /\ snapshot' = {}
  /\ bpc' = "none" /\ spc' = "off" /\ sync_stop' = FALSE

SessionsNext == Continue \/ Restart

SessionsSpec == SessionsInit /\ [][SessionsNext]_allVars /\ Fairness

-----------------------------------------------------------------------------
\* What a run reported Ready after a save that was carried out is known to the
\* next run, provided it can read the file, wherever the run was killed: a
\* request that cancels the enrichment, a scan that has not saved yet and a
\* save that is given up take nothing back.  Excepted is a file that the kill
\* or a write that broke off left truncated: it loses everything.
ReportedSurvives ==
  [][session' # session /\ ~torn /\ readable' =>
       reported \ Fe80 \subseteq baseline_ips']_allVars
=============================================================================
