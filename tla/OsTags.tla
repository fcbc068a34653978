------------------------------- MODULE OsTags -------------------------------
(***************************************************************************)
(* The operating system shown for a device.  Packets give guesses, kept    *)
(* with a confidence; DHCP requests give a fingerprint; the sync thread    *)
(* publishes vendors, host names and models.  What is shown is put         *)
(* together from these whenever a view asks, as far as the two shared maps *)
(* are not locked at that moment: the code only tries the locks.           *)
(***************************************************************************)
EXTENDS Naturals

CONSTANTS
  Ip,               \* private addresses
  Packet,           \* the packets of a run
  Vendors, Models,  \* the vendors and models of a run
  DhcpConfidence,   \* 200
  MaxConfidence,    \* 255, the largest u8
  MaxGuesses        \* bound on the guesses counted for an address

\* A packet that gives no guess (none of its time to live, or an address
\* ingest_packet drops) has ttl 0.  Of the text of a fingerprint, a vendor, a
\* host name or a model only the class the code puts it in is kept.
DhcpTag == {"[Win]", "[Mac]", "[iOS]", "[And]", "[Lin]", "[Net]"}
Class   == DhcpTag \cup {"unknown"}

Maker   == {"apple", "samsung", "nintendo", "sony", "microsoft", "google", "phone",
            "amazon", "roku", "sonos"}
ByModel == [ios |-> "[iOS]", mac |-> "[Mac]", android |-> "[And]",
            nintendo |-> "[Nin]", playstation |-> "[PS]"]
Tag     == DhcpTag \cup {"[?]", "[Nin]", "[PS]", "[Amz]", "[Rok]", "[Son]"}

Window  == {"65535", "64240", "other", "none"}  \* of the TCP header, if there is one

ASSUME OsTagsAssumption ==
  /\ Packet \subseteq [ttl : Nat, window : Window, fp : Class \cup {"none"}]
  /\ Vendors \subseteq Maker \cup {"iot", "other"}
  /\ Models \subseteq DOMAIN ByModel \cup {"other"}
  /\ DhcpConfidence \in Nat /\ MaxConfidence \in Nat /\ MaxGuesses \in Nat
  /\ 2 <= DhcpConfidence /\ DhcpConfidence <= MaxConfidence

Unlisted == [vendor |-> "none", host |-> "other"]
Listing  == [vendor : Vendors, host : {"ios", "mac", "other"}]

VARIABLES
  os_fingerprints,     \* the tag kept for an address, and its confidence
  dhcp_fingerprints,   \* the class of the last request
  active_discovery,
  device_metadata,     \* the model, and the answer to the DHCP probe
  guessed,             \* history: how often a tag was guessed
  requested,           \* history: the classes of the requests
  moved                \* history: changes of a tag kept with confidence above 1

vars == <<os_fingerprints, dhcp_fingerprints, active_discovery, device_metadata,
          guessed, requested, moved>>

Init ==
  /\ os_fingerprints = [ip \in Ip |-> [tag |-> "[?]", confidence |-> 0]]
  /\ dhcp_fingerprints = [ip \in Ip |-> "none"]
  /\ active_discovery = [ip \in Ip |-> Unlisted]
  /\ device_metadata = [ip \in Ip |-> [model |-> "none", fp |-> "none"]]
  /\ guessed = [ip \in Ip |-> [t \in Tag |-> 0]]
  /\ requested = [ip \in Ip |-> {}]
  /\ moved = [ip \in Ip |-> 0]

-----------------------------------------------------------------------------
FromPacket(p) ==
  CASE p.ttl > 128                        -> "[Net]"
    [] p.ttl \in 65..128                  -> "[Win]"
    [] p.ttl <= 64 /\ p.window = "65535"    -> "[Mac]"
    [] p.ttl <= 64 /\ p.window = "64240"    -> "[Win]"
    [] OTHER                              -> "[Lin]"

\* The vendor, where the list names one, corrects the guess.
Corrected(tag, vendor) ==
  CASE vendor = "apple"                           -> "[Mac]"
    [] vendor = "nintendo"                        -> "[Nin]"
    [] vendor = "sony"                            -> "[PS]"
    [] vendor = "microsoft"                       -> "[Win]"
    [] vendor = "phone"                           -> "[And]"
    [] vendor = "amazon"                          -> "[Amz]"
    [] vendor = "roku"                            -> "[Rok]"
    [] vendor = "sonos"                           -> "[Son]"
    [] vendor = "samsung" /\ tag # "[Win]"        -> "[And]"
    [] vendor = "google" /\ tag = "[Lin]"         -> "[And]"
    [] OTHER                                      -> tag

\* listed: the list is not locked by the sync thread.
Guess(ip, p, listed) ==
  IF listed /\ active_discovery[ip] # Unlisted
    THEN Corrected(FromPacket(p), active_discovery[ip].vendor)
    ELSE FromPacket(p)

Saturated(n) == IF n < MaxConfidence THEN n ELSE MaxConfidence

\* (bug) A new guess inherits the confidence of the one it replaces.
Learned_Inherit(e, tag) ==
  IF e.tag = tag \/ e.confidence <= 1
    THEN [tag |-> tag, confidence |-> Saturated(e.confidence + 1)] ELSE e

\* The same guess adds to the confidence, another replaces one of at most 1.
Learned(e, tag) ==
  CASE e.tag = tag -> [tag |-> tag, confidence |-> Saturated(e.confidence + 1)]
    [] e.tag # tag /\ e.confidence <= 1 -> [tag |-> tag, confidence |-> 1]
    [] OTHER -> e

\* (bug) The limit is included.
Requested_AtLimit(e, fp) ==
  IF fp \in DhcpTag /\ e.confidence <= DhcpConfidence
    THEN [tag |-> fp, confidence |-> DhcpConfidence] ELSE e

\* A request that is recognised replaces a tag of lower confidence.
Requested(e, fp) ==
  IF fp \in DhcpTag /\ e.confidence < DhcpConfidence
    THEN [tag |-> fp, confidence |-> DhcpConfidence] ELSE e

\* A packet in the UI loop: the guess in ingest_packet, then the DHCP request.
IngestPacket(ip, p, listed) ==
  LET tag   == Guess(ip, p, listed)
      e     == os_fingerprints[ip]
      after == Requested(IF p.ttl = 0 THEN e ELSE Learned(e, tag), p.fp)
  IN /\ p.ttl = 0 \/ guessed[ip][tag] < MaxGuesses
     /\ os_fingerprints' = [os_fingerprints EXCEPT ![ip] = after]
     /\ dhcp_fingerprints' =
          IF p.fp = "none" THEN dhcp_fingerprints
                           ELSE [dhcp_fingerprints EXCEPT ![ip] = p.fp]
     /\ guessed' = IF p.ttl = 0 THEN guessed
                                ELSE [guessed EXCEPT ![ip][tag] = @ + 1]
     /\ requested' = [requested EXCEPT ![ip] = @ \cup ({p.fp} \cap DhcpTag)]
     /\ moved' = IF e.confidence > 1 /\ after.tag # e.tag
                   THEN [moved EXCEPT ![ip] = @ + 1] ELSE moved
     /\ UNCHANGED <<active_discovery, device_metadata>>

\* The sync thread publishes a device, or what a probe learned about it.
PublishDevice(ip) ==
  /\ \E d \in Listing : active_discovery' = [active_discovery EXCEPT ![ip] = d]
  /\ UNCHANGED <<os_fingerprints, dhcp_fingerprints, device_metadata,
                 guessed, requested, moved>>

PublishMetadata(ip) ==
  /\ \E model \in Models, fp \in {p.fp : p \in Packet} :
       device_metadata' = [device_metadata EXCEPT ![ip] = [model |-> model, fp |-> fp]]
  /\ UNCHANGED <<os_fingerprints, dhcp_fingerprints, active_discovery,
                 guessed, requested, moved>>

Next ==
  \/ \E ip \in Ip, p \in Packet, listed \in BOOLEAN : IngestPacket(ip, p, listed)
  \/ \E ip \in Ip : PublishDevice(ip) \/ PublishMetadata(ip)

Spec == Init /\ [][Next]_vars

-----------------------------------------------------------------------------
(***************************************************************************)
(* What a view shows.  devices, meta: the view can lock the list, or the   *)
(* metadata.                                                               *)
(***************************************************************************)
Refined(ip, devices, meta) ==
  LET d == active_discovery[ip]
      m == device_metadata[ip].model
  IN CASE meta /\ m \in DOMAIN ByModel -> ByModel[m]
       [] ~(meta /\ m \in DOMAIN ByModel) /\ (~devices \/ d = Unlisted) -> "[?]"
       [] OTHER ->
            CASE d.vendor = "apple" /\ d.host = "ios"   -> "[iOS]"
              [] d.vendor = "apple" /\ d.host = "mac"   -> "[Mac]"
              [] d.vendor = "apple" /\ d.host = "other" -> "[Apl]"
              [] d.vendor \in {"nintendo", "sony", "microsoft", "samsung"} ->
                   Corrected("[?]", d.vendor)
              [] OTHER                                  -> "[?]"

Hint(ip, devices) ==
  IF ~devices \/ active_discovery[ip] = Unlisted THEN "[?]"
  ELSE CASE active_discovery[ip].vendor = "google" -> "[Lin?]"
         [] active_discovery[ip].vendor \in {"amazon", "iot"} -> "[?/IoT]"
         [] active_discovery[ip].vendor = "sonos"  -> "[Son]"
         [] OTHER                                  -> "[?]"

get_resolved_os_tag(ip, devices, meta) ==
  LET kept    == os_fingerprints[ip].tag
      refined == Refined(ip, devices, meta)
      tag     == IF refined # "[?]" /\ kept \in {"[?]", "[Lin]", "[Net]", "[And]"}
                   THEN refined ELSE kept
  IN CASE dhcp_fingerprints[ip] \in DhcpTag -> dhcp_fingerprints[ip]
       [] dhcp_fingerprints[ip] \notin DhcpTag /\ meta
            /\ device_metadata[ip].fp \in DhcpTag -> device_metadata[ip].fp
       [] OTHER -> IF tag = "[?]" THEN Hint(ip, devices) ELSE tag

\* The labels of the radar are made with no lock held, the device list is drawn
\* with the lock of the list.
RadarTag(ip) == get_resolved_os_tag(ip, TRUE, TRUE)
PanelTag(ip) == get_resolved_os_tag(ip, FALSE, TRUE)

-----------------------------------------------------------------------------
(***************************************************************************)
(* Properties.                                                             *)
(***************************************************************************)
TypeOK ==
  /\ os_fingerprints \in [Ip -> [tag : Tag, confidence : 0..MaxConfidence]]
  /\ dhcp_fingerprints \in [Ip -> Class \cup {"none"}]
  /\ active_discovery \in [Ip -> Listing \cup {Unlisted}]
  /\ device_metadata \in [Ip -> [model : Models \cup {"none"}, fp : Class \cup {"none"}]]
  /\ guessed \in [Ip -> [Tag -> Nat]]
  /\ requested \in [Ip -> SUBSET DhcpTag]
  /\ moved \in [Ip -> Nat]

\* A confidence is earned: a tag kept with confidence n was guessed from n
\* packets at least, or a DHCP request named it.
ConfidenceEarned ==
  \A ip \in Ip : LET e == os_fingerprints[ip]
                 IN \/ e.confidence = 0
                    \/ e.tag \in requested[ip]
                    \/ e.confidence <= guessed[ip][e.tag]

\* A tag kept with confidence above 1 changes at most once more, however many
\* packets and requests come and whatever they say: the table settles.  (A view
\* shows the class of the last recognised request before the kept tag.)
TagSettles == \A ip \in Ip : moved[ip] <= 1

\* "Resolves the final OS tag, applying MAC vendor overrides to correct passive
\* fingerprinting errors" (display.rs:1268): the device list shows the tag that
\* results.  It holds the lock of the list while it asks, so the attempt to lock
\* the list again fails and the overrides are skipped.
PanelAppliesOverrides ==
  \A ip \in Ip : active_discovery[ip] # Unlisted => PanelTag(ip) = RadarTag(ip)
=============================================================================
