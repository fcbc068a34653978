----------------------------- MODULE AlertPanel -----------------------------
(***************************************************************************)
(* The alert log: one bounded list for each tier, a filter, and an offset  *)
(* for a reader who scrolled back, which counts lines from the newest.     *)
(* An alert is reduced to its time, its rule, its tier and the addresses   *)
(* its message names.                                                      *)
(***************************************************************************)
EXTENDS Listing

CONSTANTS
  Address,
  Within(_, _),   \* the text of the one occurs in the text of the other
  AlertCap,       \* 2000 alerts of a tier
  AlertRows       \* height of the panel inside its border

ASSUME WithinAssumption == \A a \in Address : Within(a, a)

Tier == {"suspicious", "behavioral", "external", "noise"}

VARIABLES
  alerts,             \* the four lists, newest last
  total_alerts,       \* alerts pushed, of each tier
  alert_filter,
  alert_scroll,
  alert_paused_scroll

panel == <<alerts, total_alerts, alert_filter, alert_scroll, alert_paused_scroll>>

PanelInit ==
  /\ alerts = [t \in Tier |-> <<>>]
  /\ total_alerts = [t \in Tier |-> 0]
  /\ alert_filter = "all"
  /\ alert_scroll = 0
  /\ alert_paused_scroll = FALSE

-----------------------------------------------------------------------------
OfTier(as, t) == Selected(as, {i \in DOMAIN as : as[i].tier = t})

\* The newest AlertCap alerts of a list that grew.
Trimmed(list) ==
  IF Len(list) > AlertCap THEN SubSeq(list, Len(list) - AlertCap + 1, Len(list))
                          ELSE list

\* (bug) The offset does not follow the alerts.
PushAlerts_Still(as) ==
  /\ alerts' = [t \in Tier |-> Trimmed(alerts[t] \o OfTier(as, t))]
  /\ total_alerts' = [t \in Tier |-> total_alerts[t] + Len(OfTier(as, t))]
  /\ UNCHANGED <<alert_filter, alert_scroll, alert_paused_scroll>>

\* push_alert of each alert of a sequence.  The offset follows every alert,
\* of whatever tier and whatever the filter.
PushAlerts(as) ==
  /\ alerts' = [t \in Tier |-> Trimmed(alerts[t] \o OfTier(as, t))]
  /\ total_alerts' = [t \in Tier |-> total_alerts[t] + Len(OfTier(as, t))]
  /\ alert_scroll' = IF alert_paused_scroll THEN alert_scroll + Len(as)
                                            ELSE alert_scroll
  /\ UNCHANGED <<alert_filter, alert_paused_scroll>>

\* C.  Neither the totals nor the offset is reset.
ClearAlerts ==
  /\ alerts' = [t \in Tier |-> <<>>]
  /\ UNCHANGED <<total_alerts, alert_filter, alert_scroll, alert_paused_scroll>>

\* (bug) Alerts already in the log stay.
ForgetAlerts_Keep(ip) == UNCHANGED panel

\* Enter after W: the alerts whose message contains the text go.
ForgetAlerts(ip) ==
  LET Mentions(a) == \E i \in DOMAIN a.about : Within(ip, a.about[i])
      Others(list) == {i \in DOMAIN list : ~Mentions(list[i])}
  IN /\ alerts' = [t \in Tier |-> Selected(alerts[t], Others(alerts[t]))]
     /\ UNCHANGED <<total_alerts, alert_filter, alert_scroll, alert_paused_scroll>>

-----------------------------------------------------------------------------
(***************************************************************************)
(* The keys of the panel, when it has the focus.                           *)
(***************************************************************************)
\* With no filter the lists are merged and sorted by time.
Listed ==
  LET all == alerts["suspicious"] \o alerts["behavioral"]
               \o alerts["external"] \o alerts["noise"]
  IN IF alert_filter = "all" THEN Sorted(all, [i \in DOMAIN all |-> all[i].at])
                             ELSE alerts[alert_filter]

ScrollUp ==
  /\ alert_scroll + 1 < Len(Listed)
  /\ alert_paused_scroll' = TRUE
  /\ alert_scroll' = alert_scroll + 1
  /\ UNCHANGED <<alerts, total_alerts, alert_filter>>

ScrollDown ==
  /\ alert_scroll' = IF alert_scroll = 0 THEN 0 ELSE alert_scroll - 1
  /\ alert_paused_scroll' = (alert_scroll' # 0)
  /\ UNCHANGED <<alerts, total_alerts, alert_filter>>

ResumeScroll ==
  /\ alert_scroll' = 0
  /\ alert_paused_scroll' = FALSE
  /\ UNCHANGED <<alerts, total_alerts, alert_filter>>

CycleFilter ==
  /\ alert_filter' = [all |-> "suspicious", suspicious |-> "behavioral",
                      behavioral |-> "external", external |-> "noise",
                      noise |-> "all"][alert_filter]
  /\ UNCHANGED <<alerts, total_alerts, alert_scroll, alert_paused_scroll>>

-----------------------------------------------------------------------------
(***************************************************************************)
(* What the panel shows: the alerts on its lines, top first.  For a reader *)
(* who is back the last line asks to press Space instead.                  *)
(***************************************************************************)
Visible ==
  LET list == Listed
      max  == IF Len(list) > AlertRows THEN Len(list) - AlertRows ELSE 0
      back == IF ~alert_paused_scroll THEN 0
              ELSE IF alert_scroll < max THEN alert_scroll ELSE max
      skip == max - back
      last == IF skip + AlertRows < Len(list) THEN skip + AlertRows ELSE Len(list)
  IN SubSeq(list, skip + 1, IF alert_paused_scroll THEN last - 1 ELSE last)
=============================================================================
