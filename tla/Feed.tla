-------------------------------- MODULE Feed --------------------------------
(***************************************************************************)
(* The live feed: one bounded buffer for each protocol, a filter, and an   *)
(* offset for a reader who scrolled back.  The offset counts lines from    *)
(* the newest; every packet pushed while the reader is back adds one, so   *)
(* that the lines do not move under the reader's eyes.                     *)
(***************************************************************************)
EXTENDS Listing, SequencesExt

CONSTANTS
  FeedCap,      \* 2000 packets of a protocol
  Rows,         \* height of the panel inside its border
  MaxPackets,   \* bound on the packets of a run
  MaxKeys       \* bound on the offset reached with the Up key alone

ASSUME FeedAssumption ==
  FeedCap \in Nat \ {0} /\ Rows \in Nat /\ MaxPackets \in Nat /\ MaxKeys \in Nat

Buffered == {"tcp", "udp", "icmp"}
Protocol == Buffered \cup {"unknown"}
Filter   == Buffered \cup {"all"}

VARIABLES
  feed,                 \* feed_tcp, feed_udp, feed_icmp: numbers of arrival
  arrived,              \* packets so far; the number stands for the time
  display_filter,
  feed_scroll,
  feed_paused_scroll

vars == <<feed, arrived, display_filter, feed_scroll, feed_paused_scroll>>

Init ==
  /\ feed = [p \in Buffered |-> <<>>]
  /\ arrived = 0
  /\ display_filter = "all"
  /\ feed_scroll = 0
  /\ feed_paused_scroll = FALSE

-----------------------------------------------------------------------------
\* A full buffer loses its oldest packet.
Push(buffer, n) ==
  LET longer == Append(buffer, n)
  IN IF Len(longer) > FeedCap THEN Tail(longer) ELSE longer

\* (bug) The offset does not follow the packets.
IngestPacket_Still(p) ==
  /\ arrived < MaxPackets
  /\ arrived' = arrived + 1
  /\ feed' = IF p \in Buffered THEN [feed EXCEPT ![p] = Push(@, arrived + 1)]
                               ELSE feed
  /\ UNCHANGED <<display_filter, feed_scroll, feed_paused_scroll>>

\* The end of ingest_packet: the offset follows every packet, of whatever
\* protocol and whatever the filter.
IngestPacket(p) ==
  /\ arrived < MaxPackets
  /\ arrived' = arrived + 1
  /\ feed' = IF p \in Buffered THEN [feed EXCEPT ![p] = Push(@, arrived + 1)]
                               ELSE feed
  /\ feed_scroll' = IF feed_paused_scroll THEN feed_scroll + 1 ELSE feed_scroll
  /\ UNCHANGED <<display_filter, feed_paused_scroll>>

\* The offset has no upper limit.
ScrollUp ==
  /\ feed_scroll < MaxKeys + arrived
  /\ feed_paused_scroll' = TRUE
  /\ feed_scroll' = feed_scroll + 1
  /\ UNCHANGED <<feed, arrived, display_filter>>

ScrollDown ==
  /\ feed_scroll' = IF feed_scroll = 0 THEN 0 ELSE feed_scroll - 1
  /\ feed_paused_scroll' = (feed_scroll' # 0)
  /\ UNCHANGED <<feed, arrived, display_filter>>

\* Space.
ResumeScroll ==
  /\ feed_scroll' = 0
  /\ feed_paused_scroll' = FALSE
  /\ UNCHANGED <<feed, arrived, display_filter>>

\* F.
CycleFilter ==
  /\ display_filter' = [all |-> "tcp", tcp |-> "udp", udp |-> "icmp",
                        icmp |-> "all"][display_filter]
  /\ UNCHANGED <<feed, arrived, feed_scroll, feed_paused_scroll>>

-----------------------------------------------------------------------------
(***************************************************************************)
(* What the panel shows.                                                   *)
(***************************************************************************)
\* With no filter the three buffers are merged and sorted by time.
Listed ==
  LET all == feed["tcp"] \o feed["udp"] \o feed["icmp"]
  IN IF display_filter = "all" THEN Sorted(all, all) ELSE feed[display_filter]

\* The lines, top first; the last row asks a reader who is back to press Space.
Visible ==
  LET list == Listed
      max  == IF Len(list) > Rows THEN Len(list) - Rows ELSE 0
      back == IF ~feed_paused_scroll THEN 0
              ELSE IF feed_scroll < max THEN feed_scroll ELSE max
      skip == max - back
      take == IF back > 0 /\ Rows > 0 THEN Rows - 1 ELSE Rows
  IN SubSeq(list, skip + 1, IF skip + take < Len(list) THEN skip + take ELSE Len(list))

-----------------------------------------------------------------------------
\* The packet that a step drops from a full buffer.
Dropped == UNION {ToSet(feed[p]) \ ToSet(feed[p]') : p \in Buffered}

\* A step that pushes a packet the filter lets through leaves the top line of a
\* reader who is back where it was, unless the packet it drops is that line or
\* one below it.  (A packet the filter hides does move the lines, and in a panel
\* of one row the request to press Space may take the place of the only one.)
FeedKeepsPlace ==
  LET top == Visible[1]
  IN Rows # 1 /\ feed_paused_scroll /\ arrived' > arrived /\ Listed' # Listed
       /\ Visible # <<>> /\ (\A n \in Dropped : n < top)
     => Visible' # <<>> /\ Visible'[1] = top
=============================================================================
