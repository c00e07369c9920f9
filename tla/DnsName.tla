------------------------------ MODULE DnsName ------------------------------
(***************************************************************************)
(* Domain names in DNS messages (io/dns/Protocol.hpp, Protocol.cpp): the   *)
(* encoder with its compression map, parse_domain_name(), and the iterator *)
(* that reads the labels of a parsed name again, without bounds.           *)
(*                                                                         *)
(* Octets are 0 .. MaxOctet; an octet from Mark on has the marker bits of  *)
(* a compression pointer.  The limits keep their order and their relations *)
(* but not their values: MaxLabel < Mark, and MaxName is the longest name  *)
(* as well as the largest uint8_t.  A name given to the encoder is a       *)
(* string: a sequence of letters, which are octets, and Dots.              *)
(***************************************************************************)
EXTENDS Integers, SequencesExt

CONSTANTS
  MaxOctet,   \* 0xFF
  Mark,       \* 0xC0
  MaxLabel,   \* 63
  MaxName,    \* FQDN_MAX_OCTET_LEN, 0xFF
  Messages,   \* messages that arrive
  Starts,     \* where names are read in them
  NameLists   \* names that are encoded into one message

VARIABLES
  stage,   \* what is going on
  toEncode,   \* the names to encode
  at,      \* where in the first of them the next label starts
  nodes,   \* CompressionMap::buckets
  starts,  \* where in the message each encoded name starts
  msg,     \* the octets of the message
  p,       \* parse_domain_name(): its local variables
  walked   \* labels that the iterator has given

nameVars == <<stage, toEncode, at, nodes, starts, msg, p, walked>>

Dot == MaxOctet + 1
Octets == 0 .. MaxOctet
MaxPointer == (MaxOctet - Mark) * (MaxOctet + 1) + MaxOctet
NoPointer == MaxPointer + 1
ASSUME DnsNameAssumption ==
  /\ {MaxOctet, Mark, MaxLabel, MaxName} \subseteq Nat \ {0}
  /\ MaxLabel < Mark /\ Mark <= MaxOctet
  /\ Messages \subseteq Seq(Octets) /\ Starts \subseteq Nat
  /\ \A list \in NameLists : list # <<>> /\ list \in Seq(Seq(Octets \cup {Dot}))

Ended == {"idle", "done", "failed", "refused"}

(* Reading begins at i of a message of n octets. *)
ParseFrom(i, n) == [start |-> i, pos |-> i, lim |-> n, first |-> NoPointer, firstPtr |-> TRUE,
                    consume |-> 0, len |-> 0, labels |-> <<>>]

NameInit ==
  /\ stage = "idle"
  /\ toEncode = <<>>
  /\ at = 1
  /\ nodes = {}
  /\ starts = <<>>
  /\ msg = <<>>
  /\ p = ParseFrom(0, 0)
  /\ walked = <<>>

-----------------------------------------------------------------------------
(* split_into_labels(): a dot at the end is dropped, and the rest is split  *)
(* at the others.                                                           *)

WithoutLastDot(name) ==
  IF name # <<>> /\ Last(name) = Dot THEN Front(name) ELSE name

(* Where labels start; an empty string has none. *)
LabelStarts(name) ==
  LET sv == WithoutLastDot(name)
  IN IF sv = <<>> THEN {} ELSE {1} \cup {i + 1 : i \in {j \in DOMAIN sv : sv[j] = Dot}}

LabelEnd(name, i) ==
  LET sv == WithoutLastDot(name)
  IN CHOOSE j \in i - 1 .. Len(sv) :
       /\ \A k \in i .. j : sv[k] # Dot
       /\ j = Len(sv) \/ sv[j + 1] = Dot

LabelAt(name, i) == SubSeq(name, i, LabelEnd(name, i))

(* How many labels there are up to the one that starts at i. *)
LabelRank(name, i) == Cardinality({j \in LabelStarts(name) : j <= i})

SplitIntoLabels(name) ==
  [n \in 1 .. Cardinality(LabelStarts(name)) |->
     LabelAt(name, CHOOSE i \in LabelStarts(name) : LabelRank(name, i) = n)]

-----------------------------------------------------------------------------
(* encode_domain_name() for each of a list of names, with one map: one name *)
(* in encode_question(), several in its tests.  The header's octets in      *)
(* front, which move every offset alike, are left out.                      *)

Encode(list) ==
  /\ stage = "idle"
  /\ stage' = "encode"
  /\ toEncode' = list
  /\ starts' = <<0>>
  /\ UNCHANGED <<at, nodes, msg, p, walked>>

(* The name that is being encoded. *)
Name == toEncode[Len(starts)]

(* The octets behind a name: the next one starts there, or the message is   *)
(* complete and goes to the reader.                                         *)
NameWritten(octets) ==
  /\ msg' = msg \o octets
  /\ at' = 1
  /\ IF Len(starts) < Len(toEncode)
       THEN /\ starts' = Append(starts, Len(msg'))
            /\ UNCHANGED <<stage, p>>
       ELSE /\ stage' = "parse"
            /\ p' = ParseFrom(0, Len(msg'))
            /\ UNCHANGED starts

(* The name or its next label is not acceptable. *)
EncodeFails ==
  /\ stage = "encode"
  /\ \/ Len(Name) > MaxName
     \/ at \in LabelStarts(Name) /\ Len(LabelAt(Name, at)) \notin 1 .. MaxLabel
  /\ stage' = "refused"
  /\ UNCHANGED <<toEncode, at, nodes, starts, msg, p, walked>>

Writable ==
  /\ stage = "encode" /\ Len(Name) <= MaxName /\ at \in LabelStarts(Name)
  /\ Len(LabelAt(Name, at)) \in 1 .. MaxLabel

Pointer(offset) == <<Mark + offset \div (MaxOctet + 1), offset % (MaxOctet + 1)>>

(* Mutant of Remaining: the label alone. *)
RemainingLabel(name, i) == LabelAt(name, i)

(* remaining_name: what a node of the map stands for. *)
Remaining(name, i) == SubSeq(name, i, Len(name))

FoundNodes == {n \in nodes : n.str = Remaining(Name, at)}

(* write_label(): the rest of the name is in the message already. *)
WritePointer ==
  /\ Writable
  /\ \E n \in FoundNodes : NameWritten(Pointer(n.offset))
  /\ UNCHANGED <<toEncode, nodes, walked>>

(* write_label(): a node is added when its offset fits a pointer and there  *)
(* is memory for it.                                                        *)
WriteLabel ==
  /\ Writable /\ FoundNodes = {}
  /\ \/ UNCHANGED nodes
     \/ /\ Len(msg) <= MaxPointer
        /\ nodes' = nodes \cup {[str |-> Remaining(Name, at), offset |-> Len(msg)]}
  /\ LET label == LabelAt(Name, at)
     IN msg' = msg \o <<Len(label)>> \o label
  /\ at' = LabelEnd(Name, at) + 2
  /\ UNCHANGED <<stage, toEncode, starts, p, walked>>

WriteRoot ==
  /\ stage = "encode" /\ Len(Name) <= MaxName /\ at \notin LabelStarts(Name)
  /\ NameWritten(<<0>>)
  /\ UNCHANGED <<toEncode, nodes, walked>>

-----------------------------------------------------------------------------
(* parse_domain_name(): one action per turn of its loops.  label_position   *)
(* is pos .. lim - 1.                                                       *)

(* A name of a message from elsewhere. *)
Parse(m, start) ==
  /\ stage = "idle" /\ start <= Len(m)
  /\ stage' = "parse"
  /\ msg' = m
  /\ p' = ParseFrom(start, Len(m))
  /\ UNCHANGED <<toEncode, at, nodes, starts, walked>>

Octet(i) == msg[i + 1]

(* decode_compression_ptr() *)
HasPointer(i, lim) == lim - i >= 2 /\ Octet(i) >= Mark
Offset(high, low) == (high - Mark) * (MaxOctet + 1) + low
Target(i) == Offset(Octet(i), Octet(i + 1))

Uint8(n) == n % (MaxName + 1)

Fail ==
  /\ stage' = "failed"
  /\ UNCHANGED <<toEncode, at, nodes, starts, msg, p, walked>>

PointerFails ==
  /\ stage = "parse" /\ p.pos < p.lim /\ HasPointer(p.pos, p.lim)
  /\ Target(p.pos) > Len(msg) - 1 \/ Target(p.pos) = p.first
  /\ Fail

(* Mutant of Jump: every pointer is counted. *)
JumpCountsAll(target) ==
  [p EXCEPT !.pos = target, !.lim = Len(msg), !.consume = Uint8(@ + 2), !.first = target,
            !.firstPtr = FALSE]

(* Only the first pointer is part of the name in place, and remembered. *)
Jump(target) ==
  IF p.firstPtr
    THEN [p EXCEPT !.pos = target, !.lim = Len(msg), !.consume = Uint8(@ + 2),
                   !.first = target, !.firstPtr = FALSE]
    ELSE [p EXCEPT !.pos = target, !.lim = Len(msg)]

FollowPointer ==
  /\ stage = "parse" /\ p.pos < p.lim /\ HasPointer(p.pos, p.lim)
  /\ Target(p.pos) <= Len(msg) - 1 /\ Target(p.pos) # p.first
  /\ p' = Jump(Target(p.pos))
  /\ UNCHANGED <<stage, toEncode, at, nodes, starts, msg, walked>>

AtLabel == stage = "parse" /\ p.pos < p.lim /\ ~HasPointer(p.pos, p.lim)

(* domain_name_len behind the label. *)
NameLen == p.len + Octet(p.pos) + 1

(* decode_label() *)
LabelDecodes == Octet(p.pos) <= MaxLabel /\ p.lim - p.pos >= Octet(p.pos) + 1

(* No label here, one label too many, or the end without a root label. *)
LabelFails ==
  /\ \/ AtLabel /\ (~LabelDecodes \/ NameLen > MaxName)
     \/ stage = "parse" /\ p.pos >= p.lim
  /\ Fail

(* The loop starts again, with `first` declared anew. *)
TakeLabel ==
  /\ AtLabel /\ LabelDecodes /\ NameLen <= MaxName
  /\ LET size == Octet(p.pos) + 1
         consume == IF p.firstPtr THEN Uint8(p.consume + size) ELSE p.consume
     IN \/ /\ Octet(p.pos) # 0
           /\ p' = [p EXCEPT !.pos = @ + size, !.first = NoPointer, !.consume = consume,
                             !.len = NameLen,
                             !.labels = Append(@, [from |-> p.pos + 1, size |-> Octet(p.pos)])]
           /\ UNCHANGED stage
        \/ /\ Octet(p.pos) = 0
           /\ p' = [p EXCEPT !.pos = p.start, !.consume = consume, !.len = NameLen]
           /\ stage' = "walk"
  /\ UNCHANGED <<toEncode, at, nodes, starts, msg, walked>>

-----------------------------------------------------------------------------
(* DomainName::LabelsIterator over a name that was parsed.  It reads two    *)
(* octets wherever it is; what is behind the message is not known.          *)

Ahead(i) == IF i < Len(msg) THEN {Octet(i)} ELSE Octets

(* adwance() follows a pointer. *)
WalkPointer ==
  /\ stage = "walk"
  /\ \E high \in Ahead(p.pos), low \in Ahead(p.pos + 1) :
       high >= Mark /\ p' = [p EXCEPT !.pos = Offset(high, low)]
  /\ UNCHANGED <<stage, toEncode, at, nodes, starts, msg, walked>>

(* operator++ *)
NextLabel(n) == p.pos + n + 1

WalkLabel ==
  /\ stage = "walk"
  /\ \E n \in Ahead(p.pos) :
       /\ n < Mark /\ n # 0
       /\ walked' = Append(walked, [from |-> p.pos + 1, size |-> n])
       /\ p' = [p EXCEPT !.pos = NextLabel(n)]
  /\ UNCHANGED <<stage, toEncode, at, nodes, starts, msg>>

WalkEnds ==
  /\ stage = "walk" /\ 0 \in Ahead(p.pos)
  /\ stage' = "done"
  /\ UNCHANGED <<toEncode, at, nodes, starts, msg, p, walked>>

(* Of several names the reader goes on with the one behind. *)
ReadNext ==
  /\ stage = "done" /\ \E k \in DOMAIN starts : starts[k] = p.start + p.consume
  /\ stage' = "parse"
  /\ p' = ParseFrom(p.start + p.consume, Len(msg))
  /\ walked' = <<>>
  /\ UNCHANGED <<toEncode, at, nodes, starts, msg>>

NameTurn ==
  \/ EncodeFails \/ WritePointer \/ WriteLabel \/ WriteRoot
  \/ PointerFails \/ FollowPointer \/ LabelFails \/ TakeLabel
  \/ WalkPointer \/ WalkLabel \/ WalkEnds \/ ReadNext

NameNext ==
  \/ stage = "idle" /\ \E list \in NameLists : Encode(list)
  \/ stage = "idle" /\ \E m \in Messages, start \in Starts : Parse(m, start)
  \/ NameTurn

NameSpec == NameInit /\ [][NameNext]_nameVars

-----------------------------------------------------------------------------
(* The name at i ends at j where it stands: with its root label or its     *)
(* first pointer.  Labels of it start at `heads`.                          *)
Heads(heads, i, j) ==
  /\ {i, j} \subseteq heads
  /\ \A k \in heads \ {j} : Octet(k) \in 1 .. Mark - 1 /\ k + Octet(k) + 1 \in heads

EndsInPlace(i, j) ==
  /\ Octet(j) = 0 \/ Octet(j) >= Mark
  /\ \E heads \in SUBSET (i .. j) : Heads(heads, i, j)

(* The octets a name takes where it stands. *)
InPlace(i, j) == j - i + IF Octet(j) = 0 THEN 1 ELSE 2

(* The iterator gives exactly the labels that parse_domain_name() has      *)
(* checked, all of them in the message, whatever is behind it; and the     *)
(* decoder goes on right behind the name (bytes_to_consume), but for the   *)
(* one length that its uint8_t cannot hold.                                *)
NamesAgree ==
  stage = "done" =>
    /\ walked = p.labels
    /\ \A k \in DOMAIN walked : walked[k].from + walked[k].size <= Len(msg)
    /\ \E j \in p.start .. Len(msg) - 1 :
         /\ EndsInPlace(p.start, j)
         /\ InPlace(p.start, j) <= MaxName + 1
         /\ p.consume = Uint8(InPlace(p.start, j))

(* Every name that encode_domain_name() accepts is read back label by      *)
(* label, compressed or not and whichever nodes the map had no memory for; *)
(* the names follow each other without a gap.  Excepted are names whose    *)
(* encoding is longer than MaxName: the encoder compares the length of the *)
(* string with the limit, which is up to two octets less.                  *)
EchoDecodes ==
  toEncode # <<>> /\ stage \in {"done", "failed"} =>
    \E k \in DOMAIN starts :
      LET labels == SplitIntoLabels(toEncode[k])
      IN /\ starts[k] = p.start
         /\ \/ /\ stage = "done"
               /\ [n \in DOMAIN walked |->
                     SubSeq(msg, walked[n].from + 1, walked[n].from + walked[n].size)] = labels
               /\ p.start + p.consume = IF k < Len(starts) THEN starts[k + 1] ELSE Len(msg)
            \/ stage = "failed" /\ Len(WithoutLastDot(toEncode[k])) + 2 > MaxName

(* Pointers that lead to each other and to no label. *)
PointerLoop ==
  LET pointers == {i \in 0 .. Len(msg) - 1 : HasPointer(i, Len(msg))}
  IN \E loop \in SUBSET pointers : loop # {} /\ \A i \in loop : Target(i) \in loop

(* Reading a name comes to an end, also when pointers lead back to labels  *)
(* of the name itself: the limit on its length ends that.  Pointers that   *)
(* form a loop without a label are excepted: parse_domain_name() compares  *)
(* with the first pointer of the name only, and never leaves another loop. *)
NameEnds == (stage = "parse" /\ ~PointerLoop) ~> stage \in Ended
=============================================================================
