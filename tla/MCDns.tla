------------------------------- MODULE MCDns -------------------------------
(***************************************************************************)
(* The parts under the caching resolver, for TLC: the caches (DnsCache),   *)
(* the hosts file (HostsFile), names in messages (DnsName) and answers     *)
(* (DnsAnswer).  They share no state, so that one of them, part, moves in a *)
(* behaviour and the others stay where they begin.                         *)
(***************************************************************************)
EXTENDS DnsCache, HostsFile, DnsName, DnsAnswer

VARIABLE part

allVars == <<part, cacheVars, hostsVars, nameVars, answerVars>>

CacheRuns ==
  /\ part = "caches" /\ CacheNext
  /\ UNCHANGED <<part, hostsVars, nameVars, answerVars>>

HostsRuns ==
  /\ part = "hosts" /\ HostsNext
  /\ UNCHANGED <<part, cacheVars, nameVars, answerVars>>

NameRuns ==
  /\ part = "names" /\ NameNext
  /\ UNCHANGED <<part, cacheVars, hostsVars, answerVars>>

AnswerRuns ==
  /\ part = "answers" /\ AnswerNext
  /\ UNCHANGED <<part, cacheVars, hostsVars, nameVars>>

(* Loops of code that does not wait go on: parse_and_collect() after every *)
(* read, and those of parse_domain_name() and of the iterator over labels. *)
HostsStep == part = "hosts" /\ HostsTurn /\ UNCHANGED <<part, cacheVars, nameVars, answerVars>>
NameStep == part = "names" /\ NameTurn /\ UNCHANGED <<part, cacheVars, hostsVars, answerVars>>

DnsInit ==
  /\ part \in {"caches", "hosts", "names", "answers"}
  /\ CacheInit /\ HostsInit /\ NameInit /\ AnswerInit

DnsSpec ==
  /\ DnsInit
  /\ [][CacheRuns \/ HostsRuns \/ NameRuns \/ AnswerRuns]_allVars
  /\ WF_allVars(HostsStep) /\ WF_allVars(NameStep)

-----------------------------------------------------------------------------
(* Lookups in the hosts file and reading of names both end.                 *)
LookupEnds == HostsEnds /\ NameEnds

-----------------------------------------------------------------------------
(* Hosts files: up to two lines of any kind, or three of the more usual,    *)
(* with and without a line feed at the end.                                 *)
UsualLines == {<<"1", " ", "a">>, <<" ", "2", " ", " ", "A", " ", "b">>, <<"2", " ", "b", "a", " ", "a">>,
               <<"1", " ", "a", "#", "b">>}
OtherLines == {<<>>, <<"#", "1", " ", "a">>, <<"b", " ", "a">>, <<"2", " ">>, <<"2", " ", "0">>,
               <<"1", " ", "b", " ", "b", "a", " ", "b", " ", "a">>}
SeqsUpTo(S, n) == UNION {[1 .. k -> S] : k \in 0 .. n}
Joined(lines) == FoldSeq(LAMBDA line, s : s \o line \o <<"/">>, <<>>, lines)
MCFiles ==
  LET whole == {Joined(l) : l \in SeqsUpTo(UsualLines, 3) \cup SeqsUpTo(UsualLines \cup OtherLines, 2)}
  IN whole \cup {Front(f) : f \in whole \ {<<>>}}
MCSought == {<<"A">>, <<"b", "A">>, <<"b", "a", "A">>}

(* Messages with every octet there is, and names with every place for dots. *)
MCMessages == UNION {[1 .. n -> 0 .. MaxOctet] : n \in {1, 2, 5}}
Period == MaxOctet + 1
MCNames(n) == SeqsUpTo({1, 2, Period}, n)
MCNameLists ==
  {<<s>> : s \in MCNames(4)} \cup {<<s, t>> : s, t \in MCNames(3)}
  \cup {<<s, t, s>> : s, t \in MCNames(2)} \cup {<<<<1, Period, 1, Period, 1, Period>>>>}

(* Answers: every header with a right question and record; every question   *)
(* and kind of record with a right header; and every way the sections can   *)
(* be counted over a few records.                                           *)
Rec(t, d) == [name |-> "any", rtype |-> t, rdata |-> d, addr |-> t, ttl |-> 1, fields |-> 6]
IPv4 == Rec(1, <<"4 octets">>)
IPv6 == Rec(28, <<"16 octets">>)
FewRecords == {IPv4, [IPv4 EXCEPT !.addr = 2], IPv6, [IPv4 EXCEPT !.rtype = 257], Rec(16, <<"string">>),
               Rec(5, <<"name", "4 octets">>), Rec(1, <<"16 octets">>), [IPv4 EXCEPT !.name = "bad"]}
Fours(n) == [i \in 1 .. n |-> "4 octets"]
OtherRecords ==
  {[IPv4 EXCEPT !.fields = k] : k \in 0 .. 5}
  \cup {Rec(6, <<"name", "name">> \o Fours(n)) : n \in {4, 5}}
  \cup {Rec(13, <<"string">>), Rec(13, <<"string", "string">>), Rec(14, <<"name">>), Rec(14, <<"name", "name">>),
        Rec(15, <<"name">>), Rec(15, <<"2 octets", "name">>), Rec(12, <<>>), Rec(28, <<"4 octets">>)}
GoodHeader == [was |-> 256, qr |-> 1, opcode |-> 0, aa |-> 0, tc |-> 0, rd |-> 1, ra |-> 1, rcode |-> 0,
               qdcount |-> 1, ancount |-> 1, nscount |-> 0, arcount |-> 0]
Headers == {[GoodHeader EXCEPT !.was = w, !.qr = a, !.tc = b, !.rcode = c, !.qdcount = d, !.aa = e] :
              w \in {0, 256, 65535}, a, b, d, e \in {0, 1}, c \in {0, 3, 15}}
Counted(an, ns, ar) == [GoodHeader EXCEPT !.ancount = an, !.nscount = ns, !.arcount = ar]
AskA == [name |-> "same", qtype |-> 1, qclass |-> 1, fields |-> 3]
Questions == {[AskA EXCEPT !.fields = k] : k \in 0 .. 2}
             \cup {[AskA EXCEPT !.name = n, !.qtype = t, !.qclass = c] :
                     n \in {"same", "other", "bad"}, t \in {1, 28, 257}, c \in {1, 3}}
Msg(h, q, rs) == [short |-> FALSE, header |-> h, question |-> q, records |-> rs]
MCResponses ==
  {Msg(h, AskA, <<IPv4>>) : h \in Headers}
  \cup {Msg(GoodHeader, q, <<r>>) : q \in Questions, r \in {IPv4, IPv6}}
  \cup {Msg(GoodHeader, AskA, <<r>>) : r \in OtherRecords}
  \cup {[Msg(GoodHeader, AskA, <<>>) EXCEPT !.short = TRUE]}
  \cup {Msg(Counted(an, ns, ar), AskA, rs) : an \in 0 .. 3, ns, ar \in {0, 1}, rs \in SeqsUpTo(FewRecords, 2)}
  \cup {Msg(Counted(an, ns, 0), AskA, rs) : an \in {2, 3}, ns \in {0, 1}, rs \in [1 .. 3 -> FewRecords]}
MCWants == {{"v4"}, {"v6"}, {"v4", "v6"}}
=============================================================================
