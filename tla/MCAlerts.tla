------------------------------ MODULE MCAlerts ------------------------------
(***************************************************************************)
(* Situations for the runs of Alerts.  "host" is the only private address. *)
(***************************************************************************)
EXTENDS Alerts

MCAddress == {"host", "ten", "eleven"}
MCPrivate == {"host"}
\* The text of "ten" (10.0.0.1) occurs in the text of "eleven" (10.0.0.11).
MCWithin(a, b) == a = b \/ (a = "ten" /\ b = "eleven")

Plain(src, dst, proto, sport, dport) ==
  [src |-> src, dst |-> dst, proto |-> proto, sport |-> sport, dport |-> dport,
   flags |-> {"ACK"}, trusted |-> FALSE, answers |-> {}, domain |-> "none"]

Undisturbed(packets, most, gaps) ==
  [packets |-> packets, most |-> most, gaps |-> gaps,
   notice |-> FALSE, typed |-> {}, clear |-> FALSE]

\* DNS responses to two addresses, with times between them in which a window
\* ends or not.
Responses ==
  Undisturbed({Plain("ten", "host", "udp", 53, 2000),
               Plain("ten", "eleven", "udp", 53, 2000)}, 6, {1, 3})

\* Heartbeats of two gaps, from a trusted and from another process, and packets
\* shortly after them.
Heartbeats ==
  Undisturbed({Plain("host", "ten", "tcp", 2000, 443),
               [Plain("host", "ten", "tcp", 2001, 443) EXCEPT !.trusted = TRUE]},
              5, {1, 5, 9})

\* Two sources that probe three ports, one of them whitelisted at any time.
Probes ==
  [Undisturbed({Plain(s, "host", "tcp", 2000, d) : s \in {"ten", "eleven"},
                                                   d \in {22, 23, 2000}}, 5, {})
     EXCEPT !.typed = {"ten"}]

\* A packet for every rule, with W, C and a report of the discovery thread.
Rules ==
  [packets |->
     {[Plain("ten", "host", "tcp", 2000, 22) EXCEPT !.flags = {}],
      Plain("host", "ten", "udp", 2000, 5353),
      Plain("host", "ten", "tcp", 2000, 5353),
      Plain("host", "ten", "tcp", 2000, 443),
      Plain("host", "eleven", "tcp", 2000, 443),
      [Plain("host", "eleven", "tcp", 2000, 443) EXCEPT !.domain = "service"],
      Plain("ten", "host", "icmp", NoPort, NoPort)},
   most |-> 3, gaps |-> {}, notice |-> TRUE, typed |-> {"ten"}, clear |-> TRUE]

MCTraffic == {Responses, Heartbeats, Probes, Rules}
=============================================================================
