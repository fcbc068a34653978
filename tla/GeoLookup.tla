------------------------------ MODULE GeoLookup ------------------------------
(***************************************************************************)
(* GeoIP lookups: the UI loop asks for the location of addresses it meets  *)
(* in packets, at most MaxInFlight at a time, and the geo thread answers   *)
(* one request after the other over a service that may fail or not answer. *)
(* The cache entry of an address is written twice: a placeholder when it   *)
(* is asked for, the answer when it is drained.                            *)
(***************************************************************************)
EXTENDS Naturals, Sequences, SequencesExt

CONSTANTS
  Ip,            \* public IPv4 addresses (is_public_ip_heuristic)
  Local,         \* any other address
  NoIp,          \* "the geo thread waits for a request"
  MaxInFlight    \* 5 in the code

ASSUME GeoAssumption ==
  /\ Local \notin Ip /\ NoIp \notin Ip
  /\ MaxInFlight \in Nat \ {0}

VARIABLES
  \* The UI thread.
  ui,              \* the part of the loop it is in
  paused,
  geo_cache,
  geo_in_flight,
  \* The channels.
  req, res,
  \* The geo thread.
  asking           \* the address it asks the service for

uiVars == <<ui, paused, geo_cache, geo_in_flight>>
vars   == <<uiVars, req, res, asking>>

\* "pending" is the entry that says "Looking up...", "unknown" the one with
\* country "??", "located" any other.
Answer == {"located", "unknown"}
Cached == {"none", "pending"} \cup Answer

TypeOK ==
  /\ ui \in {"drain", "packets"} /\ paused \in BOOLEAN
  /\ geo_cache \in [Ip -> Cached]
  /\ geo_in_flight \in Nat
  /\ req \in Seq(Ip) /\ res \in Seq(Ip \X Answer)
  /\ asking \in Ip \cup {NoIp}

Init ==
  /\ ui = "drain" /\ paused = FALSE
  /\ geo_cache = [ip \in Ip |-> "none"]
  /\ geo_in_flight = 0
  /\ req = <<>> /\ res = <<>>
  /\ asking = NoIp

-----------------------------------------------------------------------------
(***************************************************************************)
(* The UI thread.                                                          *)
(***************************************************************************)
\* (bug) Only a lookup that succeeded gives its slot back.
DrainResult_KeepSlot ==
  /\ ui = "drain"
  /\ res # <<>>
  /\ geo_in_flight' = IF Head(res)[2] = "unknown" THEN geo_in_flight
                                                  ELSE geo_in_flight - 1
  /\ geo_cache' = [geo_cache EXCEPT ![Head(res)[1]] = Head(res)[2]]
  /\ res' = Tail(res)
  /\ UNCHANGED <<ui, paused, req, asking>>

\* A failed lookup is cached too, to skip asking again.
DrainResult ==
  /\ ui = "drain"
  /\ res # <<>>
  /\ geo_in_flight' = IF geo_in_flight = 0 THEN 0 ELSE geo_in_flight - 1
  /\ geo_cache' = [geo_cache EXCEPT ![Head(res)[1]] = Head(res)[2]]
  /\ res' = Tail(res)
  /\ UNCHANGED <<ui, paused, req, asking>>

FindNoResult ==
  /\ ui = "drain"
  /\ res = <<>>
  /\ ui' = "packets"
  /\ UNCHANGED <<paused, geo_cache, geo_in_flight, req, res, asking>>

\* (bug) The limit is tested once for both addresses of a packet.
Lookups_OneTest(dst, src) ==
  LET Wanted(ip) == ip \in Ip /\ geo_cache[ip] = "none"
                      /\ geo_in_flight < MaxInFlight
      first  == IF Wanted(dst) THEN <<dst>> ELSE <<>>
      second == IF Wanted(src) /\ src # dst THEN <<src>> ELSE <<>>
  IN first \o second

\* (bug) Addresses of the local network are looked up too.
Lookups_Anywhere(dst, src) ==
  LET Wanted(ip, inFlight) ==
        (ip \in Ip => geo_cache[ip] = "none") /\ inFlight < MaxInFlight
      first  == IF Wanted(dst, geo_in_flight) THEN <<dst>> ELSE <<>>
      second == IF Wanted(src, geo_in_flight + Len(first)) /\ src # dst
                  THEN <<src>> ELSE <<>>
  IN first \o second

\* What a packet makes the UI ask for: its destination, then its source, each
\* if it has no entry yet and a slot is left.
Lookups(dst, src) ==
  LET Wanted(ip, inFlight) ==
        ip \in Ip /\ geo_cache[ip] = "none" /\ inFlight < MaxInFlight
      first  == IF Wanted(dst, geo_in_flight) THEN <<dst>> ELSE <<>>
      second == IF Wanted(src, geo_in_flight + Len(first)) /\ src # dst
                  THEN <<src>> ELSE <<>>
  IN first \o second

\* (bug) The placeholder is not written before the request is sent.
ShowPacket_NoPlaceholder(dst, src) ==
  /\ ui = "packets"
  /\ ~paused
  /\ LET ips == Lookups(dst, src) IN
       /\ geo_in_flight' = geo_in_flight + Len(ips)
       /\ req' = req \o ips
  /\ UNCHANGED <<ui, paused, geo_cache, res, asking>>

\* A packet that arrives while the feed is paused is only logged.
ShowPacket(dst, src) ==
  /\ ui = "packets"
  /\ ~paused
  /\ LET ips == Lookups(dst, src) IN
       /\ geo_in_flight' = geo_in_flight + Len(ips)
       /\ geo_cache' = [ip \in Ip |-> IF ip \in ToSet(ips) THEN "pending"
                                                           ELSE geo_cache[ip]]
       /\ req' = req \o ips
  /\ UNCHANGED <<ui, paused, res, asking>>

\* The rest of the loop's turn: draw, keys (P pauses), sleep.
EndTurn ==
  /\ ui = "packets"
  /\ ui' = "drain"
  /\ paused' \in BOOLEAN
  /\ UNCHANGED <<geo_cache, geo_in_flight, req, res, asking>>

Turn == DrainResult \/ FindNoResult \/ EndTurn

-----------------------------------------------------------------------------
(***************************************************************************)
(* The geo thread.                                                         *)
(***************************************************************************)
TakeRequest ==
  /\ asking = NoIp
  /\ req # <<>>
  /\ asking' = Head(req)
  /\ req' = Tail(req)
  /\ UNCHANGED <<uiVars, res>>

\* (bug) A request that fails is not answered.
Respond_OnlySuccess ==
  /\ asking # NoIp
  /\ res' \in {res, Append(res, <<asking, "located">>)}
  /\ asking' = NoIp
  /\ UNCHANGED <<uiVars, req>>

\* Within 3 seconds the service answers or the request fails; a country code
\* that is not two letters becomes "??".
Respond ==
  /\ asking # NoIp
  /\ \E answer \in Answer : res' = Append(res, <<asking, answer>>)
  /\ asking' = NoIp
  /\ UNCHANGED <<uiVars, req>>

GeoThread == TakeRequest \/ Respond

-----------------------------------------------------------------------------
Next ==
  \/ Turn
  \/ \E dst, src \in Ip \cup {Local} : ShowPacket(dst, src)
  \/ GeoThread

\* The UI loop goes round for ever, at most 1000 packets a turn; every wait
\* of the geo thread is timed.
Fairness == WF_vars(Turn) /\ WF_vars(GeoThread)

Spec == Init /\ [][Next]_vars /\ Fairness

-----------------------------------------------------------------------------
(***************************************************************************)
(* Properties.                                                             *)
(***************************************************************************)
\* The addresses a lookup is outstanding for, first asked first: answers not
\* drained, the request being served, requests not served.
Line == [i \in 1..Len(res) |-> res[i][1]]
          \o (IF asking = NoIp THEN <<>> ELSE <<asking>>) \o req

\* The counter is exact, so no slot is lost or given back twice
\* (saturating_sub in main.rs:213 never saturates), and at most MaxInFlight
\* are in use although a packet may ask for two.
SlotsAreExact ==
  /\ geo_in_flight = Len(Line)
  /\ geo_in_flight <= MaxInFlight

\* The addresses that show "Looking up..." are the ones a lookup is
\* outstanding for, and no address waits twice.
PendingIsAsked ==
  /\ ToSet(Line) = {ip \in Ip : geo_cache[ip] = "pending"}
  /\ IsInjective(Line)

\* An answered address is not asked for again, a failed one included: its
\* entry never changes once the answer is in.
AnswersStay ==
  [][\A ip \in Ip : geo_cache[ip] \in Answer =>
       geo_cache'[ip] = geo_cache[ip]]_vars

\* Every lookup settles, and so no slot is in use for ever.
LookupsSettle ==
  \A ip \in Ip : geo_cache[ip] = "pending" ~> geo_cache[ip] \in Answer
=============================================================================
