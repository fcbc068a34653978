------------------------------ MODULE Payloads ------------------------------
(***************************************************************************)
(* What is read of a UDP payload, by the ports it came with: a response of *)
(* a DNS server (DnsMessage), or the options of a DHCP message, for the    *)
(* system that sent it and, in requests, for its name and address.  A      *)
(* reply to the DHCP probe of a scan is read by a walk of the same form.   *)
(*                                                                         *)
(* Of a DHCP message, data are the options; the fields of fixed place that *)
(* the code looks at are variables.  An option's value is the pair of      *)
(* where it starts and how long it is, as in DnsMessage.                   *)
(***************************************************************************)
EXTENDS DnsMessage, FiniteSetsExt

CONSTANTS
  Options,       \* the sequences of bytes considered as options
  CodeEnd,       \* 255; the code of padding is 0
  CodeName,      \* 12
  CodeRequested, \* 50, an address of SizeA bytes
  CodeParams,    \* 55
  Blank          \* the bytes that trim() takes from the ends of a name

ASSUME PayloadsAssumption ==
  /\ Options \subseteq Seq(Bytes) /\ Blank \cap NoText = {}
  /\ 0 \notin {CodeEnd, CodeName, CodeRequested, CodeParams}

VARIABLES
  ports,       \* what the ports tell of the payload
  op,          \* 1 of a request, 2 of a reply
  valid,       \* 240 bytes and the magic cookie; for a probe, a known xid too
  ciaddr,      \* whether the client has an address
  walk,        \* the loop over the options that runs
  at,          \* its pos
  fingerprint, hostname, requested   \* <<>> for None, or <<the value>>

dhcpVars == <<ports, op, valid, ciaddr, walk, at, fingerprint, hostname, requested>>
allVars  == <<vars, dhcpVars>>

Dhcp == ports \in {"client", "server", "probe"}

\* A payload arrived.  Other ports' payloads are not read.
PayloadInit ==
  /\ ports \in {"dns", "client", "server", "probe"}
  /\ IF ports = "dns"
       THEN Init
       ELSE /\ data \in Options /\ qr = 0 /\ qdcount = 0 /\ ancount = 0
            /\ pc = "done" /\ offset = 0
            /\ pos = 0 /\ jumped = FALSE /\ jump_count = 0 /\ labels = <<>>
            /\ questions = 0 /\ answers = 0 /\ ips = <<>> /\ result = <<>> /\ reach = 0
  /\ op \in IF Dhcp THEN {1, 2} ELSE {0}
  /\ valid \in IF Dhcp THEN BOOLEAN ELSE {FALSE}
  /\ ciaddr \in IF ports = "client" THEN BOOLEAN ELSE {FALSE}
  /\ walk = "start" /\ at = 0
  /\ fingerprint = <<>> /\ hostname = <<>> /\ requested = <<>>

-----------------------------------------------------------------------------
\* A walk is over.  A request is walked a second time, for the name.
NextWalk == walk' = IF walk = "params" /\ ports = "client" THEN "name" ELSE "done"

Header ==
  /\ Dhcp /\ walk = "start"
  /\ walk' = IF valid /\ op = (IF ports = "probe" THEN 2 ELSE 1)
               THEN "params" ELSE "done"
  /\ UNCHANGED <<vars, ports, op, valid, ciaddr, at, fingerprint, hostname, requested>>

Walking == walk \in {"params", "name"}

Pad ==
  /\ Walking /\ at < Size /\ Byte(at) = 0
  /\ Reads(at + 1)
  /\ at' = at + 1
  /\ UNCHANGED <<message, pc, offset, name, questions, answers, ips, result, ports, op,
                 valid, ciaddr, walk, fingerprint, hostname, requested>>

\* (bug) The option that does not fit is read as far as there is data.
Truncated_Inside == at + 1 >= Size

\* An option that is not all there ends the walk.
Truncated == at + 1 >= Size \/ at + 2 + Byte(at + 1) > Size

WalkEnds ==
  /\ Walking
  /\ \/ at >= Size /\ Reads(0)
     \/ at < Size /\ Byte(at) = CodeEnd /\ Reads(at + 1)
     \/ /\ at < Size /\ Byte(at) \notin {0, CodeEnd} /\ Truncated
        /\ Reads(IF at + 1 < Size THEN at + 2 ELSE at + 1)
  /\ NextWalk /\ at' = 0
  /\ UNCHANGED <<message, pc, offset, name, questions, answers, ips, result, ports, op,
                 valid, ciaddr, fingerprint, hostname, requested>>

IsName(from, n) ==
  n > 0 /\ IsText(from, n) /\ \E i \in from .. from + n - 1 : Byte(i) \notin Blank

\* (bug) The first name counts, not the last.
Takes_FirstName(code, value) ==
  /\ fingerprint' = IF walk = "params" /\ code = CodeParams /\ value[2] > 0
                      THEN <<value>> ELSE fingerprint
  /\ hostname' = IF walk = "name" /\ code = CodeName /\ IsName(value[1], value[2])
                      /\ hostname = <<>>
                   THEN <<value>> ELSE hostname
  /\ requested' = IF /\ walk = "name" /\ code = CodeRequested /\ value[2] = SizeA
                     /\ ~ciaddr /\ requested = <<>>
                    THEN <<value>> ELSE requested

\* A name overwrites the one before; an address is taken where there is none.
Takes(code, value) ==
  /\ fingerprint' = IF walk = "params" /\ code = CodeParams /\ value[2] > 0
                      THEN <<value>> ELSE fingerprint
  /\ hostname' = IF walk = "name" /\ code = CodeName /\ IsName(value[1], value[2])
                   THEN <<value>> ELSE hostname
  /\ requested' = IF /\ walk = "name" /\ code = CodeRequested /\ value[2] = SizeA
                     /\ ~ciaddr /\ requested = <<>>
                    THEN <<value>> ELSE requested

\* An option; the parameters end their walk.
Option ==
  /\ Walking /\ at < Size /\ Byte(at) \notin {0, CodeEnd} /\ ~Truncated
  /\ LET len == Byte(at + 1)
     IN /\ Reads(at + 2 + len)
        /\ Takes(Byte(at), <<at + 2, len>>)
        /\ IF fingerprint' # fingerprint
             THEN NextWalk /\ at' = 0
             ELSE UNCHANGED walk /\ at' = at + 2 + len
  /\ UNCHANGED <<message, pc, offset, name, questions, answers, ips, result, ports, op,
                 valid, ciaddr>>

PayloadNext ==
  \/ ports = "dns" /\ Next /\ UNCHANGED dhcpVars
  \/ Header \/ Pad \/ WalkEnds \/ Option
  \/ walk = "done" /\ UNCHANGED allVars

PayloadSpec == PayloadInit /\ [][PayloadNext]_allVars /\ WF_allVars(PayloadNext)

-----------------------------------------------------------------------------
(***************************************************************************)
(* What the options say, read off the bytes by their grammar.              *)
(***************************************************************************)
\* Where the options from i on begin.
OptionsAt[i \in Nat] ==
  IF i >= Size \/ Byte(i) = CodeEnd THEN {}
  ELSE IF Byte(i) = 0 THEN OptionsAt[i + 1]
  ELSE IF i + 1 >= Size \/ i + 2 + Byte(i + 1) > Size THEN {}
  ELSE {i} \cup OptionsAt[i + 2 + Byte(i + 1)]

\* The options that have parameters, a name, or an address to say.
Parameters == {i \in OptionsAt[0] : Byte(i) = CodeParams /\ Byte(i + 1) > 0}
Names      == {i \in OptionsAt[0] : Byte(i) = CodeName /\ IsName(i + 2, Byte(i + 1))}
Addresses  == {i \in OptionsAt[0] : Byte(i) = CodeRequested /\ Byte(i + 1) = SizeA}

\* What the first, or the last, of the options I says.
Value(i)   == <<i + 2, Byte(i + 1)>>
FirstOf(I) == IF I = {} THEN <<>> ELSE <<Value(Min(I))>>
LastOf(I)  == IF I = {} THEN <<>> ELSE <<Value(Max(I))>>

\* The walks of packet.rs:600-626 and 654-687 and of dhcp_probe.rs:184-213 agree
\* with the grammar on every message, padded, cut off or with options repeated:
\* the first parameters, the last name that is one, and the first address asked
\* for by a client that has none.
OptionsAreRead ==
  walk = "done" =>
    LET request == valid /\ op = (IF ports = "probe" THEN 2 ELSE 1)
        client  == request /\ ports = "client"
    IN /\ fingerprint = IF request THEN FirstOf(Parameters) ELSE <<>>
       /\ hostname = IF client THEN LastOf(Names) ELSE <<>>
       /\ requested = IF client /\ ~ciaddr THEN FirstOf(Addresses) ELSE <<>>

\* Every payload is done with: the cyclic names of DNS and the padding too.
PayloadsHalt == <>(IF ports = "dns" THEN pc = "done" ELSE walk = "done")
=============================================================================
