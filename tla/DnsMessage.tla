----------------------------- MODULE DnsMessage -----------------------------
(***************************************************************************)
(* The parser of DNS responses, which the capture thread runs on whatever  *)
(* bytes arrive on port 53.  An index outside the data would panic and end *)
(* the capture; a chain of compression pointers could be endless.          *)
(*                                                                         *)
(* A message is a sequence of bytes, indexed from 0 as in the code, and    *)
(* the fields of its header.  The fixed sizes are constants, so that short *)
(* messages hold questions and answers; every field of one or two bytes is *)
(* one byte.  A label, or an address, is the pair of where it starts and   *)
(* how long it is.                                                         *)
(***************************************************************************)
EXTENDS Naturals, Sequences

CONSTANTS
  Bytes,              \* the values a byte takes
  Messages,           \* the sequences of bytes considered
  Counts,             \* the values of a count in the header
  HeaderSize,         \* 12
  QuestionSize,       \* 4: QTYPE and QCLASS
  RecordSize,         \* 10: TYPE, CLASS, TTL and RDLENGTH
  TypeAt, LengthAt,   \* 0 and 8: where TYPE and RDLENGTH are in it
  TypeA, SizeA,       \* 1 and 4
  TypeAaaa, SizeAaaa, \* 28 and 16
  Pointer,            \* 0xC0
  NoText,             \* bytes that no UTF-8 text has, such as 0xC0; there are no
                      \* characters of several bytes in a model
  MaxJumps            \* 10

ASSUME DnsMessageAssumption ==
  /\ Bytes \subseteq Nat /\ Messages \subseteq Seq(Bytes) /\ Counts \subseteq Nat
  /\ HeaderSize \in Nat \ {0} /\ QuestionSize \in Nat /\ RecordSize \in Nat
  /\ TypeAt \in Nat /\ LengthAt \in Nat
  /\ TypeAt < RecordSize /\ LengthAt < RecordSize
  /\ SizeA \in Nat /\ SizeAaaa \in Nat /\ Pointer \in Nat \ {0} /\ MaxJumps \in Nat

VARIABLES
  data, qr, qdcount, ancount,           \* the message
  pc,
  offset,                               \* of parse_dns_answers
  pos, jumped, jump_count, labels,      \* of read_dns_name
  questions, answers,                   \* turns of the two loops left
  ips,
  result,                               \* <<>> for None, else the name and the addresses
  reach                                 \* history: the end of what was read

message == <<data, qr, qdcount, ancount>>
name    == <<pos, jumped, jump_count, labels>>
vars    == <<data, qr, qdcount, ancount, pc, offset, pos, jumped, jump_count,
             labels, questions, answers, ips, result, reach>>

Size    == Len(data)
Byte(i) == IF i < Size THEN data[i + 1] ELSE 0
Reads(end) == reach' = IF end > reach THEN end ELSE reach

Init ==
  /\ data \in Messages /\ qr \in {0, 1} /\ qdcount \in Counts /\ ancount \in Counts
  /\ pc = "start" /\ offset = 0
  /\ pos = 0 /\ jumped = FALSE /\ jump_count = 0 /\ labels = <<>>
  /\ questions = 0 /\ answers = 0 /\ ips = <<>> /\ result = <<>> /\ reach = 0

-----------------------------------------------------------------------------
\* `?` on a name that cannot be read: the whole message is given up.
GiveUp ==
  /\ pc' = "done"
  /\ UNCHANGED <<message, offset, name, questions, answers, ips, result>>

Start ==
  /\ pc = "start"
  /\ IF Size < HeaderSize \/ qr # 1 \/ qdcount = 0 \/ ancount = 0
       THEN /\ Reads(IF Size < HeaderSize THEN 0 ELSE HeaderSize)
            /\ GiveUp
       ELSE /\ Reads(HeaderSize)
            /\ pc' = "read" /\ offset' = HeaderSize /\ pos' = HeaderSize
            /\ questions' = qdcount - 1 /\ answers' = ancount
            /\ UNCHANGED <<message, jumped, jump_count, labels, ips, result>>

-----------------------------------------------------------------------------
\* read_dns_name, one turn of its loop.
ReadOutside == pc = "read" /\ pos >= Size /\ Reads(0) /\ GiveUp

\* (bug) The name ends where its last label does.
ReadRoot_AfterJump ==
  /\ pc = "read" /\ pos < Size /\ Byte(pos) = 0
  /\ Reads(pos + 1)
  /\ IF labels = <<>>
       THEN GiveUp
       ELSE /\ pc' = "question"
            /\ offset' = pos + 1 + QuestionSize
            /\ UNCHANGED <<message, name, questions, answers, ips, result>>

\* The root: the name is read, and what follows it of the question passed.
ReadRoot ==
  /\ pc = "read" /\ pos < Size /\ Byte(pos) = 0
  /\ Reads(pos + 1)
  /\ IF labels = <<>>
       THEN GiveUp
       ELSE /\ pc' = "question"
            /\ offset' = (IF jumped THEN offset ELSE pos + 1) + QuestionSize
            /\ UNCHANGED <<message, name, questions, answers, ips, result>>

PointerRead == Reads(IF pos + 1 >= Size THEN pos + 1 ELSE pos + 2)
PointsTo(i) == (Byte(i) - Pointer) * 256 + Byte(i + 1)

\* (bug) The jumps before the first label are not counted.
ReadPointer_CountLate ==
  /\ pc = "read" /\ pos < Size /\ Byte(pos) >= Pointer
  /\ PointerRead
  /\ IF pos + 1 >= Size \/ jump_count = MaxJumps
       THEN GiveUp
       ELSE /\ offset' = IF jumped THEN offset ELSE pos + 2
            /\ pos' = PointsTo(pos) /\ jumped' = TRUE
            /\ jump_count' = IF labels = <<>> THEN jump_count ELSE jump_count + 1
            /\ UNCHANGED <<message, pc, labels, questions, answers, ips, result>>

\* Only the first pointer ends the name where it stands.
ReadPointer ==
  /\ pc = "read" /\ pos < Size /\ Byte(pos) >= Pointer
  /\ PointerRead
  /\ IF pos + 1 >= Size \/ jump_count = MaxJumps
       THEN GiveUp
       ELSE /\ offset' = IF jumped THEN offset ELSE pos + 2
            /\ pos' = PointsTo(pos) /\ jumped' = TRUE /\ jump_count' = jump_count + 1
            /\ UNCHANGED <<message, pc, labels, questions, answers, ips, result>>

IsText(from, n) == \A i \in from .. from + n - 1 : Byte(i) \notin NoText

ReadLabel ==
  /\ pc = "read" /\ pos < Size /\ Byte(pos) > 0 /\ Byte(pos) < Pointer
  /\ LET len == Byte(pos)
     IN IF pos + 1 + len > Size
          THEN Reads(pos + 1) /\ GiveUp
          ELSE /\ Reads(pos + 1 + len)
               /\ IF ~IsText(pos + 1, len)
                    THEN GiveUp
                    ELSE /\ labels' = Append(labels, <<pos + 1, len>>)
                         /\ pos' = pos + 1 + len
                         /\ UNCHANGED <<message, pc, offset, jumped, jump_count,
                                        questions, answers, ips, result>>

-----------------------------------------------------------------------------
\* skip_dns_name, one turn of its loop, for a question or an answer.
Skipping == pc \in {"skip_question", "skip_answer"}

SkipOutside == Skipping /\ offset >= Size /\ Reads(0) /\ GiveUp

Skipped(end) ==
  /\ pc' = IF pc = "skip_question" THEN "question" ELSE "record"
  /\ offset' = IF pc = "skip_question" THEN end + QuestionSize ELSE end
  /\ UNCHANGED <<message, name, questions, answers, ips, result>>

SkipRoot ==
  /\ Skipping /\ offset < Size /\ Byte(offset) = 0
  /\ Reads(offset + 1) /\ Skipped(offset + 1)

\* The second byte of a pointer is passed, not read.
SkipPointer ==
  /\ Skipping /\ offset < Size /\ Byte(offset) >= Pointer
  /\ Reads(offset + 1) /\ Skipped(offset + 2)

SkipLabel ==
  /\ Skipping /\ offset < Size /\ Byte(offset) > 0 /\ Byte(offset) < Pointer
  /\ Reads(offset + 1)
  /\ offset' = offset + 1 + Byte(offset)
  /\ UNCHANGED <<message, pc, name, questions, answers, ips, result>>

-----------------------------------------------------------------------------
\* The two loops of parse_dns_answers.
NextQuestion ==
  /\ pc = "question"
  /\ Reads(0)
  /\ IF questions > 0
       THEN pc' = "skip_question" /\ questions' = questions - 1
       ELSE pc' = "answer" /\ questions' = 0
  /\ UNCHANGED <<message, offset, name, answers, ips, result>>

\* What was found before the data ended counts.
Finish ==
  /\ pc' = "done"
  /\ result' = IF ips = <<>> THEN <<>> ELSE <<[qname |-> labels, ips |-> ips]>>
  /\ UNCHANGED <<message, offset, name, questions, answers, ips>>

NextAnswer ==
  /\ pc = "answer"
  /\ Reads(0)
  /\ IF answers = 0 \/ offset >= Size
       THEN Finish
       ELSE /\ pc' = "skip_answer" /\ answers' = answers - 1
            /\ UNCHANGED <<message, offset, name, questions, ips, result>>

\* (bug) The length of the data is not compared with the record.
ReadRecord_NoTest ==
  /\ pc = "record"
  /\ LET rtype    == Byte(offset + TypeAt)
         rdlength == Byte(offset + LengthAt)
         rdata    == offset + RecordSize
         address  == \/ rtype = TypeA /\ rdlength = SizeA
                     \/ rtype = TypeAaaa /\ rdlength = SizeAaaa
     IN /\ Reads(rdata + (IF address THEN rdlength ELSE 0))
        /\ pc' = "answer" /\ offset' = rdata + rdlength
        /\ ips' = IF address THEN Append(ips, <<rdata, rdlength>>) ELSE ips
        /\ UNCHANGED <<message, name, questions, answers, result>>

ReadRecord ==
  /\ pc = "record"
  /\ LET rtype    == Byte(offset + TypeAt)
         rdlength == Byte(offset + LengthAt)
         rdata    == offset + RecordSize
         address  == \/ rtype = TypeA /\ rdlength = SizeA
                     \/ rtype = TypeAaaa /\ rdlength = SizeAaaa
     IN IF rdata > Size
          THEN Reads(0) /\ Finish
          ELSE IF rdata + rdlength > Size
            THEN Reads(rdata) /\ Finish
            ELSE /\ Reads(rdata + (IF address THEN rdlength ELSE 0))
                 /\ pc' = "answer" /\ offset' = rdata + rdlength
                 /\ ips' = IF address THEN Append(ips, <<rdata, rdlength>>) ELSE ips
                 /\ UNCHANGED <<message, name, questions, answers, result>>

\* The parser has returned.
Returned == pc = "done" /\ UNCHANGED vars

Next ==
  \/ Start \/ ReadOutside \/ ReadRoot \/ ReadPointer \/ ReadLabel
  \/ SkipOutside \/ SkipRoot \/ SkipPointer \/ SkipLabel
  \/ NextQuestion \/ NextAnswer \/ ReadRecord \/ Returned

Spec == Init /\ [][Next]_vars /\ WF_vars(Next)

-----------------------------------------------------------------------------
(***************************************************************************)
(* What a message says, read off its bytes by the grammar of the protocol: *)
(* a set that is empty where the bytes are no name, or no record.          *)
(***************************************************************************)
\* Where the name at i ends, in place.
NameEnd[i \in Nat] ==
  IF i >= Size THEN {}
  ELSE CASE Byte(i) = 0        -> {i + 1}
         [] Byte(i) >= Pointer -> {i + 2}
         [] OTHER              -> NameEnd[i + 1 + Byte(i)]

\* The labels of the name at i, with at most n pointers on the way.
NameLabels[from \in Nat \X Nat] ==
  LET i == from[1]
      n == from[2]
  IN IF i >= Size THEN {}
     ELSE CASE Byte(i) = 0 -> {<<>>}
            [] Byte(i) >= Pointer ->
                 IF n = 0 \/ i + 1 >= Size THEN {}
                 ELSE NameLabels[<<PointsTo(i), n - 1>>]
            [] OTHER ->
                 IF i + 1 + Byte(i) > Size \/ ~IsText(i + 1, Byte(i)) THEN {}
                 ELSE {<<<<i + 1, Byte(i)>>>> \o rest :
                         rest \in NameLabels[<<i + 1 + Byte(i), n>>]}

\* Where n questions from i on end.
QuestionsEnd[from \in Nat \X Nat] ==
  LET i == from[1]
      n == from[2]
  IN IF n = 0 THEN {i}
     ELSE UNION {QuestionsEnd[<<e + QuestionSize, n - 1>>] : e \in NameEnd[i]}

\* A record whose name ends at e: its data fits, and is an address or not.
RecordData(e) == e + RecordSize
RecordEnd(e)  == RecordData(e) + Byte(e + LengthAt)
RecordAddress(e) ==
  IF <<Byte(e + TypeAt), Byte(e + LengthAt)>> \in {<<TypeA, SizeA>>, <<TypeAaaa, SizeAaaa>>}
    THEN <<<<RecordData(e), Byte(e + LengthAt)>>>> ELSE <<>>

\* The addresses among n records from i on.
RecordsAt[from \in Nat \X Nat] ==
  LET i == from[1]
      n == from[2]
  IN IF n = 0 THEN {<<>>}
     ELSE UNION {{RecordAddress(e) \o rest : rest \in RecordsAt[<<RecordEnd(e), n - 1>>]}
                   : e \in {e \in NameEnd[i] : RecordEnd(e) <= Size}}

Said ==
  {[qname |-> n, ips |-> a] :
     n \in NameLabels[<<HeaderSize, MaxJumps>>] \ {<<>>},
     a \in UNION {RecordsAt[<<i, ancount>>] : i \in QuestionsEnd[<<HeaderSize, qdcount>>]}}

-----------------------------------------------------------------------------
(***************************************************************************)
(* Properties.                                                             *)
(***************************************************************************)
\* Whatever the bytes are, none outside the data is read: parse_dns_answers
\* (packet.rs:265) does not panic, and the capture thread goes on.
ReadsInside == reach <= Size

\* A well-formed response with an address gives its name and its addresses, in
\* order, compressed or not: the loops of packet.rs:286-337 lose their place in
\* no question and no record.
SaysWhatItSays ==
  pc = "done" /\ qr = 1 /\ qdcount > 0 /\ ancount > 0 /\ Size >= HeaderSize =>
    \A s \in Said : result = IF s.ips = <<>> THEN <<>> ELSE <<s>>
=============================================================================
