----------------------------- MODULE DnsAnswer -----------------------------
(***************************************************************************)
(* How CachelessResolver takes a server's answer apart: ResponseDecoder    *)
(* (io/dns/Protocol.cpp) under process_server_answer_impl() and            *)
(* validate_response() (io/dns/Resolver.cpp).                              *)
(*                                                                         *)
(* A message is what the server has written: the fields of its header, a   *)
(* question and records, each with the number of fields that are in the    *)
(* message, since it may end anywhere.  Record data is a sequence of items *)
(* (a name, octets, a character string).  What a name looks like in a      *)
(* message is the subject of DnsName.                                      *)
(***************************************************************************)
EXTENDS Naturals, FiniteSets, SequencesExt

CONSTANTS
  Responses,  \* messages that servers send
  Wants,      \* sets of families that can be constructed from: IP
  Sizes       \* sizes of the span `out`

VARIABLES
  phase,   \* how far the answer has been read
  resp,    \* the message
  flags,   \* Header::Flags::value
  want,    \* the families of addresses that the caller takes
  size,    \* the size of `out`
  taken,   \* records consumed
  got      \* what has been written to `out`

answerVars == <<phase, resp, flags, want, size, taken, got>>

NoResponse == [id |-> 0]

AnswerInit ==
  /\ phase = "idle"
  /\ resp = NoResponse
  /\ flags = 0
  /\ want = {} /\ size = 0
  /\ taken = 0
  /\ got = <<>>

-----------------------------------------------------------------------------
(* Header::Flags: fields of 16 bits, by the value of their lowest bit and   *)
(* how many values they have.                                               *)

QR == [unit |-> 32768, values |-> 2]
OPCODE == [unit |-> 2048, values |-> 16]
AA == [unit |-> 1024, values |-> 2]
TC == [unit |-> 512, values |-> 2]
RD == [unit |-> 256, values |-> 2]
RA == [unit |-> 128, values |-> 2]
RCODE == [unit |-> 1, values |-> 16]

GetBitfield(f, mask) == (mask \div f.unit) % f.values

(* Mutant: the bits are added to those that are set. *)
AddBitfield(f, mask, v) == mask + v * f.unit

SetBitfield(f, mask, v) == mask - GetBitfield(f, mask) * f.unit + v * f.unit

(* What the set functions make of a request's flags when a server answers   *)
(* to it: h.was is the value they start from.                               *)
HeaderFlags(h) ==
  LET qr == SetBitfield(QR, h.was, h.qr)
      opcode == SetBitfield(OPCODE, qr, h.opcode)
      aa == SetBitfield(AA, opcode, h.aa)
      tc == SetBitfield(TC, aa, h.tc)
      rd == SetBitfield(RD, tc, h.rd)
      ra == SetBitfield(RA, rd, h.ra)
  IN SetBitfield(RCODE, ra, h.rcode)

(* set_bitfield() asserts that the value is representable in the field. *)
HeaderFits(h) ==
  /\ h.was \in Nat
  /\ h.qr \in 0 .. QR.values - 1 /\ h.opcode \in 0 .. OPCODE.values - 1
  /\ h.aa \in 0 .. AA.values - 1 /\ h.tc \in 0 .. TC.values - 1
  /\ h.rd \in 0 .. RD.values - 1 /\ h.ra \in 0 .. RA.values - 1
  /\ h.rcode \in 0 .. RCODE.values - 1
  /\ {h.qdcount, h.ancount, h.nscount, h.arcount} \subseteq Nat

ASSUME AnswerAssumption ==
  /\ Sizes \subseteq Nat
  /\ \A m \in Responses : HeaderFits(m.header) /\ Len(m.records) \in Nat

(* A message arrives for the pending request; one that is too short for a   *)
(* header is ignored (consume_header).                                      *)
ReceiveMessage(m, families, n) ==
  /\ phase = "idle"
  /\ phase' = IF m.short THEN "ignored" ELSE "header"
  /\ resp' = m
  /\ flags' = HeaderFlags(m.header)
  /\ want' = families /\ size' = n
  /\ UNCHANGED <<taken, got>>

Ends(as) ==
  /\ phase' = as
  /\ UNCHANGED <<resp, flags, want, size, taken, got>>

(* validate_response(): the header. *)
ValidateHeader ==
  /\ phase = "header"
  /\ Ends(IF GetBitfield(RCODE, flags) # 0 THEN "rcode"
          ELSE IF GetBitfield(QR, flags) # 1 THEN "GOT_REQUEST_INSTEAD"
          ELSE IF GetBitfield(TC, flags) = 1 THEN "QUESTION_TRUNCATED"
          ELSE IF resp.header.qdcount # 1 THEN "INVALID_QDCOUNT"
          ELSE "question")

(* The types and classes of the enumerations have 8 bits. *)
LowOctet(n) == n % 256

(* The question of resolve_name_impl(): callers that take either family of  *)
(* addresses ask for IPv4.                                                  *)
A == 1
AAAA == 28
IN_ == 1
AskedType == IF want = {"v6"} THEN AAAA ELSE A

(* consume_question_entry(): a name, QTYPE and QCLASS. *)
QuestionDecodes(q) == q.fields = 3 /\ q.name # "bad"

QuestionMatches(q) ==
  /\ q.name = "same"
  /\ LowOctet(q.qtype) = AskedType /\ LowOctet(q.qclass) = IN_

ValidateQuestion ==
  /\ phase = "question"
  /\ Ends(IF ~QuestionDecodes(resp.question) THEN "decode"
          ELSE IF ~QuestionMatches(resp.question) THEN "QUESTION_VALUE_MISMATCH"
          ELSE "answers")

-----------------------------------------------------------------------------
(* parse_rdata(): what the data of a record starts with; RdataType(rtype)   *)
(* keeps 8 bits.  Types without a form take any data.                       *)

NameTypes == {2, 5, 7, 8, 9, 12}  \* NS, CNAME, MB, MG, MR, PTR
SOA == 6
HINFO == 13
MINFO == 14
MX == 15

Form(rtype) ==
  CASE rtype = A          -> <<"4 octets">>
    [] rtype = AAAA       -> <<"16 octets">>
    [] rtype \in NameTypes -> <<"name">>
    [] rtype = SOA        -> <<"name", "name">> \o [i \in 1 .. 5 |-> "4 octets"]
    [] rtype = HINFO      -> <<"string", "string">>
    [] rtype = MINFO      -> <<"name", "name">>
    [] rtype = MX         -> <<"2 octets", "name">>
    [] OTHER              -> <<>>

(* Addresses fill the data; anything may follow what other types need. *)
RdataParses(rtype, rdata) ==
  IF rtype \in {A, AAAA} THEN rdata = Form(rtype) ELSE IsPrefix(Form(rtype), rdata)

(* consume_resource_record(): a name, TYPE, CLASS, TTL, RDLENGTH and data.  *)
RecordDecodes(rr) == rr.fields = 6 /\ rr.name # "bad" /\ RdataParses(LowOctet(rr.rtype), rr.rdata)

(* The next record of the message. *)
HasRecord == taken < Len(resp.records) /\ RecordDecodes(resp.records[taken + 1])
Record == resp.records[taken + 1]

(* The visitor of the answer's records: is it an address the caller takes? *)
Family(rr) == IF LowOctet(rr.rtype) = A THEN "v4" ELSE IF LowOctet(rr.rtype) = AAAA THEN "v6" ELSE "none"

(* invalidate(): nothing more is read after an error. *)
RecordFails ==
  /\ \/ phase = "answers" /\ taken < resp.header.ancount
     \/ phase = "rest" /\ taken < resp.header.ancount + resp.header.nscount + resp.header.arcount
  /\ ~HasRecord
  /\ Ends("decode")

ConsumeAnswer ==
  /\ phase = "answers" /\ taken < resp.header.ancount /\ HasRecord
  /\ taken' = taken + 1
  /\ got' = IF Len(got) < size /\ Family(Record) \in want
              THEN Append(got, [addr |-> Record.addr, ttl |-> Record.ttl]) ELSE got
  /\ UNCHANGED <<phase, resp, flags, want, size>>

(* The loop over the answers goes on when there is no room any more. *)
AnswersRead == taken = resp.header.ancount

AnswersEnd ==
  /\ phase = "answers" /\ AnswersRead
  /\ Ends("rest")

(* void_consume_ns_ar_rrs() *)
ConsumeRest ==
  /\ phase = "rest" /\ HasRecord
  /\ taken < resp.header.ancount + resp.header.nscount + resp.header.arcount
  /\ taken' = taken + 1
  /\ UNCHANGED <<phase, resp, flags, want, size, got>>

Return ==
  /\ phase = "rest" /\ taken = resp.header.ancount + resp.header.nscount + resp.header.arcount
  /\ Ends("done")

AnswerNext ==
  \/ phase = "idle" /\ \E m \in Responses, families \in Wants, n \in Sizes : ReceiveMessage(m, families, n)
  \/ ValidateHeader \/ ValidateQuestion
  \/ RecordFails \/ ConsumeAnswer \/ AnswersEnd \/ ConsumeRest \/ Return

AnswerSpec == AnswerInit /\ [][AnswerNext]_answerVars

-----------------------------------------------------------------------------
(* A message that is an answer to the question, as its sender wrote it: a   *)
(* complete one, with as many records as the header counts.                 *)
Complete(m) ==
  LET total == m.header.ancount + m.header.nscount + m.header.arcount
  IN /\ ~m.short
     /\ m.header.rcode = 0 /\ m.header.qr = 1 /\ m.header.tc = 0 /\ m.header.qdcount = 1
     /\ QuestionDecodes(m.question) /\ QuestionMatches(m.question)
     /\ total <= Len(m.records)
     /\ \A k \in 1 .. total : RecordDecodes(m.records[k])

(* How many of the first n records are addresses that the caller takes. *)
Wanted(rr) == Family(rr) \in want
Count(n) == Cardinality({k \in 1 .. n : Wanted(resp.records[k])})

Reading == {"header", "question", "answers", "rest"}

(* A request is answered exactly by the messages that are right from the    *)
(* first to the last record, also when the room for addresses is used up    *)
(* half-way or none of a section is of use; it then has the first addresses *)
(* of the wanted kind, in order, and no other.  Types are compared by their *)
(* low octet, as the enumerations do.                                       *)
AnswerExact ==
  phase \notin Reading \cup {"idle"} =>
    /\ (phase = "done") <=> Complete(resp)
    /\ phase = "done" =>
         LET n == resp.header.ancount
         IN /\ Len(got) = IF size < Count(n) THEN size ELSE Count(n)
            /\ \A k \in 1 .. n :
                 Wanted(resp.records[k]) /\ Count(k) <= size =>
                   got[Count(k)] = [addr |-> resp.records[k].addr, ttl |-> resp.records[k].ttl]
=============================================================================
