----------------------------- MODULE DnsProofs -----------------------------
(***************************************************************************)
(* The DNS client, for any number of requests, clients, names, ids,        *)
(* headers, messages and records.                                          *)
(*                                                                         *)
(* CachelessResolver: what is in m_pending_requests, and whose answer a    *)
(* request gets.  MemoryCache: its tree of names, its lists of headers and *)
(* its tree of expiry times describe one set of headers at any time, and   *)
(* what they give a client is what CachePromise says.  Answers: which      *)
(* records of a message are taken.  Names: the iterator and the decoder    *)
(* agree with parse_domain_name(), and names that are encoded are read     *)
(* back.  Hosts file: which addresses are found.                           *)
(***************************************************************************)
EXTENDS Resolver, DnsCache, HostsFile, DnsAnswer, DnsName, BasicLemmas

-----------------------------------------------------------------------------
(* CachelessResolver *)

(* A request that has not begun has no result. *)
NoResultYet == \A q \in Requests : st[q] = "idle" => result[q] = "nothing"

(* A sender works for a suspended request: it is a local of its frame. *)
SendersServe == \A q \in Requests : sender[q] \in {"sending", "sleeping"} => st[q] = "waiting"

(* PendingExact needs both: a request enters the list without a result, and *)
(* a sender that fails takes its own request, still suspended, out of it.   *)
(* RightAnswer is inductive with the types.                                 *)
IInv == PendingExact /\ NoResultYet /\ SendersServe /\ RightAnswer

(* The set that m_pending_requests holds. *)
Unanswered == {q \in Requests : st[q] = "waiting" /\ result[q] = "nothing"}

(* An answer goes to a request that is in the list. *)
LEMMA FindPending ==
  ASSUME TypeOK, NEW i, Find(i) # 0
  PROVE  Find(i) \in 1 .. Len(pending) /\ pending[Find(i)] \in ToSet(pending)
<1> DEFINE I == {k \in 1 .. Len(pending) : id[pending[k]] = i}
<1>1. Find(i) = IF I # {} THEN Min(I) ELSE 0
  BY DEF Find, SelectInSeq
<1>2. I \subseteq Nat /\ I # {}
  BY <1>1
<1>3. Min(I) \in I
  <2> HIDE DEF I
  <2> QED
    BY <1>2, MinNat
<1>4. Find(i) \in 1 .. Len(pending)
  BY <1>1, <1>2, <1>3
<1> QED
  BY <1>4 DEF TypeOK, ToSet

(* At the start nothing is pending. *)
LEMMA InitIInv ==
  ASSUME Init
  PROVE  IInv
<1>1. TypeOK
  <2>1. MaxId \in Nat /\ 0 \in Ids
    BY ResolverAssumption DEF ResolverAssumption, Ids
  <2>2. pending \in Seq(Requests) /\ Len(pending) <= MaxId
    BY <2>1 DEF Init
  <2> QED
    BY <2>1, <2>2 DEF Init, TypeOK, States, Results, Senders
<1>2. PendingExact
  BY <1>1 DEF Init, PendingExact, ToSet, IsInjective
<1> QED
  BY <1>2 DEF Init, IInv, NoResultYet, SendersServe, RightAnswer

(* A refused request has a result and never was in the list. *)
LEMMA RefuseStep ==
  ASSUME IInv, NEW q \in Requests, Refuse(q)
  PROVE  IInv'
<1>0. TypeOK /\ ToSet(pending) = Unanswered /\ IsInjective(pending)
  BY DEF IInv, PendingExact, Unanswered
<1>1. TypeOK'
  BY <1>0 DEF TypeOK, Refuse, States, Results
<1>2. Unanswered' = Unanswered
  BY <1>0 DEF Unanswered, Refuse, TypeOK
<1>3. PendingExact'
  BY <1>0, <1>1, <1>2 DEF PendingExact, Unanswered, Refuse
<1>4. NoResultYet' /\ SendersServe' /\ RightAnswer'
  BY <1>0 DEF IInv, NoResultYet, SendersServe, RightAnswer, Refuse, TypeOK
<1> QED
  BY <1>3, <1>4 DEF IInv

(* A new request goes to the end of the list, unless its id makes the       *)
(* thread spin.                                                             *)
LEMMA BeginStep ==
  ASSUME IInv, NEW q \in Requests, Begin(q)
  PROVE  IInv'
<1>0. /\ TypeOK /\ ToSet(pending) = Unanswered /\ IsInjective(pending)
      /\ st[q] = "idle" /\ result[q] = "nothing" /\ Len(pending) # MaxId
      /\ UNCHANGED <<name, result, of, ready, receiver, asked, broken>>
  BY DEF IInv, PendingExact, Unanswered, NoResultYet, Begin
<1>1. PICK i \in Ids :
        /\ id' = [id EXCEPT ![q] = i]
        /\ \/ /\ st' = [st EXCEPT ![q] = "spinning"]
              /\ UNCHANGED <<pending, sender>>
           \/ /\ st' = [st EXCEPT ![q] = "waiting"]
              /\ pending' = Append(pending, q)
              /\ \E s \in {"sending", "none"} : sender' = [sender EXCEPT ![q] = s]
  BY DEF Begin
<1>2. CASE /\ st' = [st EXCEPT ![q] = "spinning"]
           /\ UNCHANGED <<pending, sender>>
  <2>1. TypeOK'
    BY <1>0, <1>1, <1>2 DEF TypeOK, States
  <2>2. Unanswered' = Unanswered
    BY <1>0, <1>2 DEF Unanswered, TypeOK
  <2>3. PendingExact'
    BY <1>0, <1>2, <2>1, <2>2 DEF PendingExact, Unanswered
  <2>4. NoResultYet' /\ SendersServe' /\ RightAnswer'
    BY <1>0, <1>2 DEF IInv, NoResultYet, SendersServe, RightAnswer, TypeOK
  <2> QED
    BY <2>3, <2>4 DEF IInv
<1>3. CASE /\ st' = [st EXCEPT ![q] = "waiting"]
           /\ pending' = Append(pending, q)
           /\ \E s \in {"sending", "none"} : sender' = [sender EXCEPT ![q] = s]
  <2>1. q \notin ToSet(pending) /\ pending \in Seq(Requests)
    BY <1>0 DEF Unanswered, TypeOK
  <2>2. /\ pending' \in Seq(Requests) /\ Len(pending') = Len(pending) + 1
        /\ IsInjective(pending') /\ ToSet(pending') = ToSet(pending) \cup {q}
    BY <1>0, <1>3, <2>1, AppendOnce
  <2>3. Len(pending') <= MaxId
    BY <1>0, <2>2, ResolverAssumption DEF TypeOK, ResolverAssumption
  <2>4. TypeOK'
    BY <1>0, <1>1, <1>3, <2>2, <2>3 DEF TypeOK, States, Senders
  <2>5. Unanswered' = Unanswered \cup {q}
    BY <1>0, <1>3 DEF Unanswered, TypeOK
  <2>6. PendingExact'
    BY <1>0, <2>2, <2>4, <2>5 DEF PendingExact, Unanswered
  <2>7. NoResultYet' /\ SendersServe' /\ RightAnswer'
    BY <1>0, <1>3 DEF IInv, NoResultYet, SendersServe, RightAnswer, TypeOK
  <2> QED
    BY <2>6, <2>7 DEF IInv
<1> QED
  BY <1>1, <1>2, <1>3

(* Sending, sleeping and receiving nothing leave the list alone. *)
LEMMA QuietStep ==
  ASSUME IInv, UNCHANGED <<st, id, name, result, of, pending, ready, broken>>,
         asked' \subseteq Requests, receiver' \in {"completed", "receiving"},
         \/ UNCHANGED sender
         \/ \E q \in Requests, s \in {"sending", "sleeping"} :
              st[q] = "waiting" /\ sender' = [sender EXCEPT ![q] = s]
  PROVE  IInv'
<1>0. TypeOK
  BY DEF IInv, PendingExact
<1>1. TypeOK'
  BY <1>0 DEF TypeOK, Senders
<1>2. PendingExact'
  BY <1>1 DEF IInv, PendingExact
<1>3. NoResultYet' /\ SendersServe' /\ RightAnswer'
  BY <1>0 DEF IInv, NoResultYet, SendersServe, RightAnswer, TypeOK
<1> QED
  BY <1>2, <1>3 DEF IInv

(* A failed send ends its own request, which is suspended. *)
LEMMA SendFailsStep ==
  ASSUME IInv, NEW q \in Requests, SendFails(q)
  PROVE  IInv'
<1>0. /\ TypeOK /\ ToSet(pending) = Unanswered /\ IsInjective(pending)
      /\ st[q] = "waiting" /\ pending \in Seq(Requests)
      /\ result' = [result EXCEPT ![q] = "sendError"]
      /\ pending' = Unlink(pending, q)
      /\ ready' = ready \cup {q} /\ broken' = (q \in ready)
      /\ sender' = [sender EXCEPT ![q] = "ended"]
      /\ UNCHANGED <<st, id, name, of, asked>>
  BY DEF IInv, PendingExact, Unanswered, SendersServe, SendFails, CanSend, Schedule, TypeOK
<1>1. receiver' \in {"completed", "receiving"}
  BY <1>0 DEF SendFails, RestartReceiver, TypeOK
<1>2. /\ pending' \in Seq(Requests) /\ Len(pending') <= Len(pending)
      /\ IsInjective(pending') /\ ToSet(pending') = ToSet(pending) \ {q}
  BY <1>0, RemoveOnce DEF Unlink
<1>3. Len(pending') <= MaxId
  BY <1>0, <1>2, ResolverAssumption DEF TypeOK, ResolverAssumption
<1>4. TypeOK'
  BY <1>0, <1>1, <1>2, <1>3 DEF TypeOK, Results, Senders
<1>5. Unanswered' = Unanswered \ {q}
  BY <1>0 DEF Unanswered, TypeOK
<1>6. PendingExact'
  BY <1>0, <1>2, <1>4, <1>5 DEF PendingExact, Unanswered
<1>7. NoResultYet' /\ SendersServe' /\ RightAnswer'
  BY <1>0 DEF IInv, NoResultYet, SendersServe, RightAnswer, TypeOK
<1> QED
  BY <1>6, <1>7 DEF IInv

(* An answer ends the request that is found by its id, with a result that   *)
(* is an answer only if the question is the request's own.                  *)
LEMMA ReceiveStep ==
  ASSUME IInv, NEW q \in Requests, NEW kind, Receive(q, kind)
  PROVE  IInv'
<1> DEFINE pre == pending[Find(id[q])]
<1>0. /\ TypeOK /\ ToSet(pending) = Unanswered /\ IsInjective(pending)
      /\ pending \in Seq(Requests)
  BY DEF IInv, PendingExact, Unanswered, TypeOK
<1>1. /\ Find(id[q]) # 0
      /\ result' = [result EXCEPT ![pre] = Validate(pre, q, kind)]
      /\ of' = [of EXCEPT ![pre] = q]
      /\ pending' = Unlink(pending, pre)
      /\ ready' = ready \cup {pre} /\ broken' = (pre \in ready)
      /\ UNCHANGED <<st, id, name, sender, asked>>
  BY DEF Receive, Deliver, Schedule
<1>2. pre \in Requests /\ st[pre] = "waiting"
  BY <1>0, <1>1, FindPending DEF Unanswered
<1> HIDE DEF pre
<1>3. receiver' \in {"completed", "receiving"}
  BY DEF Receive, LoopReceiver
<1>4. /\ pending' \in Seq(Requests) /\ Len(pending') <= Len(pending)
      /\ IsInjective(pending') /\ ToSet(pending') = ToSet(pending) \ {pre}
  BY <1>0, <1>1, RemoveOnce DEF Unlink
<1>5. Len(pending') <= MaxId
  BY <1>0, <1>4, ResolverAssumption DEF TypeOK, ResolverAssumption
<1>6. /\ Validate(pre, q, kind) \in {"answer", "badAnswer"}
      /\ Validate(pre, q, kind) = "answer" => name[q] = name[pre]
  BY DEF Validate
<1>7. TypeOK'
  BY <1>0, <1>1, <1>2, <1>3, <1>4, <1>5, <1>6 DEF TypeOK, Results
<1>8. Unanswered' = Unanswered \ {pre}
  BY <1>0, <1>1, <1>2, <1>6 DEF Unanswered, TypeOK
<1>9. PendingExact'
  BY <1>0, <1>4, <1>7, <1>8 DEF PendingExact, Unanswered
<1>10. NoResultYet' /\ SendersServe'
  BY <1>0, <1>1, <1>2 DEF IInv, NoResultYet, SendersServe, TypeOK
<1>11. RightAnswer'
  BY <1>0, <1>1, <1>2, <1>6 DEF IInv, RightAnswer, TypeOK
<1> QED
  BY <1>9, <1>10, <1>11 DEF IInv

(* A request whose frames go away is unlinked from everything. *)
LEMMA LeaveStep ==
  ASSUME IInv, NEW q \in Requests, NEW s \in {"done", "gone"}, Leave(q, s)
  PROVE  IInv'
<1>0. /\ TypeOK /\ ToSet(pending) = Unanswered /\ IsInjective(pending)
      /\ pending \in Seq(Requests)
  BY DEF IInv, PendingExact, Unanswered, TypeOK
<1>1. /\ pending' \in Seq(Requests) /\ Len(pending') <= Len(pending)
      /\ IsInjective(pending') /\ ToSet(pending') = ToSet(pending) \ {q}
  BY <1>0, RemoveOnce DEF Unlink, Leave
<1>2. Len(pending') <= MaxId
  BY <1>0, <1>1, ResolverAssumption DEF TypeOK, ResolverAssumption
<1>3. TypeOK'
  BY <1>0, <1>1, <1>2 DEF TypeOK, Leave, States, Senders
<1>4. Unanswered' = Unanswered \ {q}
  BY <1>0 DEF Unanswered, TypeOK, Leave
<1>5. PendingExact'
  BY <1>0, <1>1, <1>3, <1>4 DEF PendingExact, Unanswered
<1>6. NoResultYet' /\ SendersServe' /\ RightAnswer'
  BY <1>0 DEF IInv, NoResultYet, SendersServe, RightAnswer, TypeOK, Leave
<1> QED
  BY <1>5, <1>6 DEF IInv

(* Every step keeps the inductive invariant. *)
LEMMA NextIInv ==
  ASSUME IInv, [Next]_vars
  PROVE  IInv'
<1>0. /\ receiver \in {"completed", "receiving"} /\ asked \subseteq Requests
      /\ \A q \in Requests : sender[q] \in {"sending", "sleeping"} => st[q] = "waiting"
  BY DEF IInv, PendingExact, TypeOK, SendersServe
<1>1. CASE UNCHANGED vars
  BY <1>0, <1>1, QuietStep DEF vars
<1>2. CASE ReceiveFails
  BY <1>0, <1>2, QuietStep DEF ReceiveFails
<1>3. ASSUME NEW q \in Requests, Refuse(q) \/ Begin(q) \/ SendFails(q) PROVE IInv'
  BY <1>3, RefuseStep, BeginStep, SendFailsStep
<1>4. ASSUME NEW q \in Requests, SendOk(q) PROVE IInv'
  BY <1>0, <1>4, QuietStep DEF SendOk, CanSend, RestartReceiver
<1>5. ASSUME NEW q \in Requests, SendAgain(q) PROVE IInv'
  BY <1>0, <1>5, QuietStep DEF SendAgain
<1>6. ASSUME NEW q \in Requests, Receive(q, "good") \/ Receive(q, "bad") PROVE IInv'
  BY <1>6, ReceiveStep
<1>7. ASSUME NEW q \in Requests, Ignore(q) PROVE IInv'
  BY <1>0, <1>7, QuietStep DEF Ignore, LoopReceiver
<1>8. ASSUME NEW q \in Requests, Resume(q) \/ Cancel(q) PROVE IInv'
  BY <1>8, LeaveStep DEF Resume, Cancel
<1> QED
  BY <1>1, <1>2, <1>3, <1>4, <1>5, <1>6, <1>7, <1>8 DEF Next

(* m_pending_requests holds exactly the suspended requests without a        *)
(* result, each once, for any number of requests and whatever ids they      *)
(* draw: no answer is stored in a frame that is gone, and no waiting        *)
(* request is forgotten (process_server_answer, periodic_background_send).  *)
THEOREM PendingIsExact == Spec => []PendingExact
<1>1. Init => IInv
  BY InitIInv
<1>2. IInv /\ [Next]_vars => IInv'
  BY NextIInv
<1>3. IInv => PendingExact
  BY DEF IInv
<1> QED
  BY <1>1, <1>2, <1>3, PTL DEF Spec

(* A request that succeeds was answered to its own question, also when its  *)
(* id is another's too (validate_response).                                 *)
THEOREM AnswersOwnQuestion == Spec => []RightAnswer
<1>1. Init => IInv
  BY InitIInv
<1>2. IInv /\ [Next]_vars => IInv'
  BY NextIInv
<1>3. IInv => RightAnswer
  BY DEF IInv
<1> QED
  BY <1>1, <1>2, <1>3, PTL DEF Spec

-----------------------------------------------------------------------------
(* MemoryCache *)


(* What buffers and headers hold. *)
NameAddrs == (1 .. 2 * Letters) \X Addresses
Entry == (1 .. 2 * Letters) \X Addresses \X Nat
AddrHeader == [parent : Nat, expires : Nat, addrs : SUBSET NameAddrs]
Group == [expires : Nat, addrs : SUBSET NameAddrs]

(* Every variable of the cache in its range. *)
CacheTypes ==
  /\ CacheTypeOK
  /\ names \in Seq(Places) /\ byExpiry \in Seq(Places)
  /\ label \in [Places -> Nat]
  /\ ips \in [Places -> Seq(Places)]
  /\ addr \in [Places -> AddrHeader]
  /\ task \in [name : Nat, header : Nat, new : BOOLEAN, left : SUBSET Group, made : Seq(Places)]
  /\ out \in [Clients -> Seq(Entry)]

(* The headers of a name that are in use. *)
AddrsOf(n) == {a \in LiveAddrs : addr[a].parent = n}

(* The headers that a push has made and may still take back. *)
Made == ToSet(task.made)

(* Names and their lists, at any time. *)
NamesLinked ==
  /\ IsInjective(names) /\ LiveNames \cap LiveAddrs = {}
  /\ \A n \in LiveNames : label[n] \in Stored
  /\ \A a \in LiveAddrs : addr[a].parent \in LiveNames
  /\ \A n \in LiveNames : IsInjective(ips[n]) /\ ToSet(ips[n]) = AddrsOf(n)

(* Headers in the order of their expiry times. *)
InOrder(s) == \A i, j \in DOMAIN s : i < j => addr[s[i]].expires <= addr[s[j]].expires

(* The tree of expiry times has all headers but those of a push. *)
ExpiryLinked == IsInjective(byExpiry) /\ ToSet(byExpiry) = LiveAddrs \ Made /\ InOrder(byExpiry)

(* A push knows its headers, and those of its name if that is new. *)
PushLinked ==
  /\ IsInjective(task.made) /\ Made \subseteq AddrsOf(task.header)
  /\ mode = "pushing" => task.header \in LiveNames /\ (task.new => AddrsOf(task.header) = Made)
  /\ mode # "pushing" => task = NoTask

(* A client that has called asks for one of its names. *)
ClientsAsk == \A c \in Clients : client[c].at # "idle" => client[c].name \in RawNames

CacheInv == CacheTypes /\ ClientsAsk /\ NamesLinked /\ ExpiryLinked /\ PushLinked

(* What lookups rely on where clients ask in lower case: names are ordered, *)
(* and a push is about its own name, with addresses that have not expired.  *)
NamesOrdered ==
  \A i, j \in DOMAIN names : i < j => label[names[i]] < label[names[j]]

PushFresh ==
  /\ mode = "pushing" => task.name \in RawNames /\ label[task.header] = task.name
  /\ \A g \in task.left : g.expires > now
  /\ \A a \in Made : addr[a].expires > now

FactsInv == CacheInv /\ NamesOrdered /\ PushFresh

-----------------------------------------------------------------------------
(* What the parts of the methods return.                                    *)

LEMMA LettersNat == Letters \in Nat /\ Blocks \in Nat /\ MaxTime \in Nat /\ RawNames \subseteq 1 .. 2 * Letters
BY DnsCacheAssumption DEF DnsCacheAssumption

(* A name in lower case is one that can be stored, and stays as it is. *)
LEMMA LowerStored ==
  ASSUME NEW n \in 1 .. 2 * Letters
  PROVE  /\ Lower(n) \in Stored /\ Lower(n) \in 1 .. 2 * Letters /\ Lower(Lower(n)) = Lower(n)
         /\ n \in Stored => Lower(n) = n
BY LettersNat DEF Lower, Stored

LEMMA FiniteAddrs == IsFiniteSet(Addresses) /\ IsFiniteSet(NameAddrs)
<1>1. IsFiniteSet(1 .. 2 * Letters)
  BY LettersNat, FS_Interval
<1>2. IsFiniteSet(Addresses)
  <2>1. IsFiniteSet({"x"} \cup {"y"})
    BY FS_Singleton, FS_AddElement
  <2>2. {"x", "y"} = {"x"} \cup {"y"}
    OBVIOUS
  <2> QED
    BY <2>1, <2>2 DEF Addresses
<1> QED
  BY <1>1, <1>2, FS_Product DEF NameAddrs

(* An address header gives entries. *)
LEMMA EntriesType ==
  ASSUME CacheTypes, NEW a \in Places
  PROVE  Entries(a) \in Seq(Entry)
<1> DEFINE xs == SetToSeq(addr[a].addrs)
<1>1. addr[a].addrs \subseteq NameAddrs /\ addr[a].expires \in Nat
  BY DEF CacheTypes, AddrHeader
<1>2. IsFiniteSet(addr[a].addrs)
  BY <1>1, FiniteAddrs, FS_Subset
<1>3. xs \in Seq(addr[a].addrs)
  BY <1>2, SetToSeqExact
<1>4. Len(xs) \in Nat /\ DOMAIN xs = 1 .. Len(xs) /\ \A n \in DOMAIN xs : xs[n] \in NameAddrs
  BY <1>1, <1>3
<1>5. \A n \in DOMAIN xs : <<xs[n][1], xs[n][2], addr[a].expires>> \in Entry
  BY <1>1, <1>4 DEF NameAddrs, Entry
<1>6. [n \in DOMAIN xs |-> <<xs[n][1], xs[n][2], addr[a].expires>>] \in Seq(Entry)
  <2> HIDE DEF xs
  <2> QED
    BY <1>4, <1>5
<1> QED
  BY <1>6 DEF Entries

LEMMA FoundType ==
  ASSUME CacheTypes, NEW raw
  PROVE  Found(raw) \in Seq(Places)
<1>1. \A k \in DOMAIN names : ips[names[k]] \in Seq(Places)
  BY DEF CacheTypes
<1> QED
  BY <1>1 DEF Found

(* A lookup gives entries. *)
LEMMA LookupType ==
  ASSUME CacheTypes, NEW raw
  PROVE  Lookup(raw) \in Seq(Entry)
<1> DEFINE list == Found(raw)
           N == Len(list)
           Step(k, x) == IF Expired(list[k]) THEN x ELSE x \o Entries(list[k])
           Def(f) == [k \in 0 .. N |->
                        IF k = 0 THEN <<>>
                        ELSE IF Expired(list[k]) THEN f[k - 1] ELSE f[k - 1] \o Entries(list[k])]
           F == CHOOSE f : f = Def(f)
<1>1. Lookup(raw) = F[N]
  BY DEF Lookup
<1>2. N \in Nat /\ \A k \in 1 .. N : list[k] \in Places
  BY FoundType
<1> HIDE DEF list, N
<1>3. \A k \in 1 .. N : \A x \in Seq(Entry) : Step(k, x) \in Seq(Entry)
  <2> SUFFICES ASSUME NEW k \in 1 .. N, NEW x \in Seq(Entry) PROVE Step(k, x) \in Seq(Entry)
    OBVIOUS
  <2>1. Entries(list[k]) \in Seq(Entry)
    BY <1>2, EntriesType
  <2>2. x \o Entries(list[k]) \in Seq(Entry)
    BY <2>1, ConcatProperties
  <2> QED
    BY <2>2
<1> DEFINE S == Seq(Entry)
           none == <<>>
<1>E. none \in S /\ \A k \in 1 .. N : \A x \in S : Step(k, x) \in S
  BY <1>3
<1> HIDE DEF S, none
<1>4. F = Def(F)
  <2> DEFINE G == [k \in 1 .. N |-> [x \in S |-> Step(k, x)]]
  <2> HIDE DEF Step
  <2>1. G \in [1 .. N -> [S -> S]]
    BY <1>E
  <2>N. N \in Nat /\ none \in S
    BY <1>2, <1>E
  <2>I. Iterations(S, N, none, G) # {}
    <3> HIDE DEF G
    <3> QED
      BY <2>N, <2>1, Iterate
  <2>2. PICK f \in [0 .. N -> S] : f[0] = none /\ \A n \in 1 .. N : f[n] = G[n][f[n - 1]]
    BY <2>I DEF Iterations
  <2>3. \A n \in 1 .. N : f[n] = Step(n, f[n - 1])
    <3> SUFFICES ASSUME NEW n \in 1 .. N PROVE f[n] = Step(n, f[n - 1])
      OBVIOUS
    <3>1. f[n - 1] \in S
      BY <1>2
    <3> QED
      BY <2>2, <3>1
  <2>4. f = Def(f)
    <3>1. \A k \in 0 .. N : k = 0 \/ k \in 1 .. N
      BY <1>2
    <3> QED
      BY <2>2, <2>3, <3>1 DEF none, Step
  <2> HIDE DEF Def
  <2> QED
    BY <2>4
<1>5. F[0] = none /\ \A n \in 1 .. N : F[n] = Step(n, F[n - 1])
  <2> HIDE DEF F
  <2>1. \A n \in 1 .. N : n \in 0 .. N /\ n # 0
    BY <1>2
  <2>2. F[0] = none
    BY <1>2, <1>4 DEF none
  <2> QED
    BY <1>4, <2>1, <2>2
<1> HIDE DEF F, Step
<1> DEFINE held == {n \in 0 .. N : F[n] \in S}
<1>6. 0 .. N \subseteq held
  <2>1. 0 \in held
    BY <1>2, <1>5, <1>E
  <2>2. \A n \in 1 .. N : n - 1 \in held => n \in held
    BY <1>2, <1>E, <1>5
  <2> HIDE DEF held
  <2> QED
    BY <1>2, <2>1, <2>2, UpTo
<1> QED
  BY <1>1, <1>2, <1>6 DEF S

(* The place of a name is in the tree or behind its end. *)
LEMMA LowerBoundType ==
  ASSUME CacheTypes, NEW x
  PROVE  LowerBound(x) \in 0 .. Len(names)
<1>1. Len(names) \in Nat /\ {k \in DOMAIN names : label[names[k]] < x} \subseteq 1 .. Len(names)
  BY DEF CacheTypes
<1> QED
  BY <1>1, CountUpTo DEF LowerBound

(* The caller's buffer holds entries. *)
LEMMA WrittenType ==
  ASSUME CacheTypes, NEW c \in Clients, NEW entries \in Seq(Entry)
  PROVE  Written(c, entries) \in Seq(Entry)
<1> DEFINE n == IF Len(entries) < Room THEN Len(entries) ELSE Room
           a == SubSeq(entries, 1, n)
           b == SubSeq(out[c], n + 1, Len(out[c]))
<1>1. Room \in Nat
  BY FiniteAddrs, FS_CardinalityType DEF Room
<1>2. Len(entries) \in Nat /\ out[c] \in Seq(Entry) /\ Len(out[c]) \in Nat
  BY DEF CacheTypes
<1>3. n \in Nat /\ n <= Len(entries)
  BY <1>1, <1>2
<1> HIDE DEF n
<1>4. a \in Seq(Entry)
  BY <1>2, <1>3
<1>5. b \in Seq(Entry)
  BY <1>2, <1>3
<1>6. Written(c, entries) = a \o b
  BY DEF Written, n
<1> HIDE DEF a, b
<1> QED
  BY <1>4, <1>5, <1>6, ConcatProperties

LEMMA ReceivedType ==
  ASSUME CacheTypes, NEW c \in Clients, client[c].name \in RawNames, NEW answer \in Batches
  PROVE  Received(c, answer) \in Seq(Entry)
<1> DEFINE l == Lower(client[c].name)
           E == {<<l, x[1], x[2]>> : x \in answer}
<1>1. l \in 1 .. 2 * Letters
  BY LettersNat, LowerStored
<1> HIDE DEF l
<1>2. answer \subseteq Addresses \X Expiries /\ Expiries \subseteq Nat
  BY LettersNat DEF Batches, Expiries
<1>3. E \subseteq Entry
  <2>1. \A x \in answer : x[1] \in Addresses /\ x[2] \in Nat
    BY <1>2
  <2>2. \A x \in answer : <<l, x[1], x[2]>> \in Entry
    BY <1>1, <2>1 DEF Entry
  <2> QED
    BY <2>2
<1>4. IsFiniteSet(answer)
  <2>1. IsFiniteSet(Expiries)
    BY LettersNat, FS_Interval DEF Expiries
  <2>3. IsFiniteSet(Addresses \X Expiries)
    BY <2>1, FiniteAddrs, FS_Product
  <2> QED
    BY <1>2, <2>3, FS_Subset
<1>5. IsFiniteSet(E)
  <2> DEFINE f == [x \in answer |-> <<l, x[1], x[2]>>]
  <2>1. f \in [answer -> E] /\ \A y \in E : \E x \in answer : f[x] = y
    OBVIOUS
  <2>2. f \in Surjection(answer, E)
    <3> HIDE DEF f, E
    <3> QED
      BY <2>1 DEF Surjection
  <2> HIDE DEF f, E
  <2> QED
    BY <1>4, <2>2, FS_Surjection
<1>6. SetToSeq(E) \in Seq(E)
  <2> HIDE DEF E
  <2> QED
    BY <1>5, SetToSeqExact
<1>7. SetToSeq(E) \in Seq(Entry)
  <2> HIDE DEF E
  <2> QED
    BY <1>3, <1>6
<1>8. Received(c, answer) = Written(c, SetToSeq(E))
  BY DEF Received, l
<1> QED
  <2> HIDE DEF E
  <2> QED
    BY <1>7, <1>8, WrittenType

(* The groups of an answer: what has not expired. *)
LEMMA GroupsType ==
  ASSUME CacheTypes, NEW batch, batch \subseteq Entry
  PROVE  Groups(batch) \subseteq Group /\ \A g \in Groups(batch) : g.expires > now
<1> SUFFICES ASSUME NEW g \in Groups(batch) PROVE g \in Group /\ g.expires > now
  OBVIOUS
<1>1. PICK e \in {f[3] : f \in {h \in batch : h[3] > now}} :
        g = [expires |-> e, addrs |-> {<<f[1], f[2]>> : f \in {h \in batch : h[3] = e}}]
  BY DEF Groups
<1>2. e \in Nat /\ e > now
  BY DEF Entry
<1>3. {<<f[1], f[2]>> : f \in {h \in batch : h[3] = e}} \subseteq NameAddrs
  BY DEF Entry, NameAddrs
<1> QED
  BY <1>1, <1>2, <1>3 DEF Group

LEMMA EarliestIn ==
  ASSUME NEW groups, groups \subseteq Group, groups # {}
  PROVE  Earliest(groups) \in groups
<1> DEFINE E == {g.expires : g \in groups}
<1>1. E \subseteq Nat /\ E # {}
  BY DEF Group
<1>2. PICK m \in E : \A e \in E : m <= e
  <2> HIDE DEF E
  <2> QED
    BY <1>1, LeastNat
<1>3. \E g \in groups : \A h \in groups : g.expires <= h.expires
  BY <1>2
<1> QED
  BY <1>3 DEF Earliest

(* Destroying the headers made takes them out of their list. *)
LEMMA DropMadeExact ==
  ASSUME CacheTypes, NEW s \in Seq(Places), IsInjective(s)
  PROVE  /\ DropMade(s) \in Seq(Places) /\ IsInjective(DropMade(s))
         /\ ToSet(DropMade(s)) = ToSet(s) \ Made
<1> DEFINE made == task.made
           N == Len(made)
           Step(k, x) == RemoveFirst(x, made[k])
           Def(f) == [k \in 0 .. N |-> IF k = 0 THEN s ELSE RemoveFirst(f[k - 1], made[k])]
           F == CHOOSE f : f = Def(f)
           S == {x \in Seq(Places) : IsInjective(x)}
<1>1. DropMade(s) = F[N]
  BY DEF DropMade
<1>2. N \in Nat /\ made \in Seq(Places) /\ DOMAIN made = 1 .. N
  BY DEF CacheTypes
<1> HIDE DEF made, N
<1>E. s \in S /\ \A k \in 1 .. N : \A x \in S : Step(k, x) \in S
  BY RemoveOnce
<1>T. \A k \in 1 .. N : \A x \in S : ToSet(Step(k, x)) = ToSet(x) \ {made[k]}
  BY RemoveOnce
<1>S. \A x \in S : x \in Seq(Places) /\ IsInjective(x)
  OBVIOUS
<1> HIDE DEF S
<1>4. F = Def(F)
  <2> DEFINE G == [k \in 1 .. N |-> [x \in S |-> Step(k, x)]]
  <2> HIDE DEF Step
  <2>1. G \in [1 .. N -> [S -> S]]
    BY <1>E
  <2>2. Iterations(S, N, s, G) # {}
    <3>1. N \in Nat /\ s \in S
      BY <1>2, <1>E
    <3> HIDE DEF G
    <3> QED
      BY <3>1, <2>1, Iterate
  <2>3. PICK f \in [0 .. N -> S] : f[0] = s /\ \A n \in 1 .. N : f[n] = G[n][f[n - 1]]
    BY <2>2 DEF Iterations
  <2>4. \A n \in 1 .. N : f[n] = Step(n, f[n - 1])
    <3> SUFFICES ASSUME NEW n \in 1 .. N PROVE f[n] = Step(n, f[n - 1])
      OBVIOUS
    <3>1. f[n - 1] \in S
      BY <1>2
    <3> QED
      BY <2>3, <3>1
  <2>5. f = Def(f)
    <3>1. \A k \in 0 .. N : k = 0 \/ k \in 1 .. N
      BY <1>2
    <3> QED
      BY <2>3, <2>4, <3>1 DEF Step
  <2> HIDE DEF Def
  <2> QED
    BY <2>5
<1>5. F[0] = s /\ \A n \in 1 .. N : F[n] = Step(n, F[n - 1])
  <2> HIDE DEF F
  <2>1. \A n \in 1 .. N : n \in 0 .. N /\ n # 0
    BY <1>2
  <2>2. F[0] = s
    BY <1>2, <1>4
  <2> QED
    BY <1>4, <2>1, <2>2
<1> HIDE DEF F, Step
<1> DEFINE held == {n \in 0 .. N : F[n] \in S /\ ToSet(F[n]) = ToSet(s) \ {made[k] : k \in 1 .. n}}
<1>6. 0 .. N \subseteq held
  <2>1. 0 \in held
    <3>1. {made[k] : k \in 1 .. 0} = {}
      OBVIOUS
    <3> QED
      BY <1>2, <1>5, <1>E, <3>1
  <2>2. ASSUME NEW n \in 1 .. N, n - 1 \in held PROVE n \in held
    <3>1. F[n - 1] \in S /\ ToSet(F[n - 1]) = ToSet(s) \ {made[k] : k \in 1 .. n - 1}
      BY <2>2
    <3>2. F[n] \in S /\ ToSet(F[n]) = ToSet(F[n - 1]) \ {made[n]}
      BY <1>5, <1>E, <1>T, <3>1
    <3>3. {made[k] : k \in 1 .. n} = {made[k] : k \in 1 .. n - 1} \cup {made[n]}
      OBVIOUS
    <3> QED
      BY <1>2, <3>1, <3>2, <3>3
  <2> HIDE DEF held
  <2> QED
    BY <1>2, <2>1, <2>2, UpTo
<1>7. N \in held
  BY <1>2, <1>6
<1>8. Made = {made[k] : k \in 1 .. N}
  BY <1>2 DEF Made, ToSet, made
<1> QED
  BY <1>1, <1>7, <1>8, <1>S

(* A header finds its place among those that are in order. *)
LEMMA InsertByExpiryExact ==
  ASSUME CacheTypes, NEW s \in Seq(Places), NEW a \in Places, InOrder(s)
  PROVE  /\ InsertByExpiry(s, a) \in Seq(Places) /\ InOrder(InsertByExpiry(s, a))
         /\ IsInjective(s) /\ a \notin ToSet(s) =>
              /\ IsInjective(InsertByExpiry(s, a))
              /\ ToSet(InsertByExpiry(s, a)) = ToSet(s) \cup {a}
<1> DEFINE n == Len(s)
           K == [k \in 1 .. n |-> addr[s[k]].expires]
           x == addr[a].expires
           b == Cardinality({k \in 1 .. n : K[k] <= x})
           r == InsertAt(s, 1 + b, a)
<1>1. n \in Nat /\ DOMAIN s = 1 .. n /\ \A k \in 1 .. n : s[k] \in Places
  OBVIOUS
<1>2. x \in Nat /\ \A k \in 1 .. n : addr[s[k]].expires \in Nat
  BY <1>1 DEF CacheTypes, AddrHeader
<1>3. K \in [1 .. n -> Nat] /\ \A i, j \in 1 .. n : i < j => K[i] <= K[j]
  BY <1>1, <1>2 DEF InOrder
<1>4. InsertByExpiry(s, a) = r
  <2>1. {k \in DOMAIN s : addr[s[k]].expires <= addr[a].expires} = {k \in 1 .. n : K[k] <= x}
    BY <1>1
  <2> QED
    BY <2>1 DEF InsertByExpiry
<1>5. b \in 0 .. n /\ \A k \in 1 .. n : K[k] <= x <=> k <= b
  <2>1. K \in [1 .. n -> Int] /\ x \in Int
    BY <1>2, <1>3
  <2> HIDE DEF n, K, x
  <2> QED
    BY <1>1, <1>3, <2>1, Boundary
<1>6. \A k \in 1 .. n : addr[s[k]].expires = K[k]
  OBVIOUS
<1> HIDE DEF b, K
<1>7. 1 + b \in 1 .. n + 1
  BY <1>1, <1>5
<1>8. /\ r \in Seq(Places) /\ Len(r) = n + 1
      /\ \A j \in 1 .. n + 1 : r[j] = IF j < 1 + b THEN s[j] ELSE IF j = 1 + b THEN a ELSE s[j - 1]
  <2> DEFINE pre == 1 + b
  <2>1. pre \in 1 .. Len(s) + 1
    BY <1>7
  <2> HIDE DEF pre
  <2>2. InsertAt(s, pre, a) \in Seq(Places) /\ HasAt(InsertAt(s, pre, a), s, pre, a)
    BY <2>1, InsertAtIndex
  <2> QED
    BY <2>2 DEF pre, HasAt
<1>9. IsInjective(s) /\ a \notin ToSet(s) => IsInjective(r) /\ ToSet(r) = ToSet(s) \cup {a}
  BY <1>7, InsertOnce
<1> HIDE DEF r
<1>10. InOrder(r)
  <2>1. DOMAIN r = 1 .. n + 1
    BY <1>1, <1>8
  <2> SUFFICES ASSUME NEW i \in 1 .. n + 1, NEW j \in 1 .. n + 1, i < j
               PROVE  addr[r[i]].expires <= addr[r[j]].expires
    BY <2>1 DEF InOrder
  <2> HIDE DEF n, x
  <2>2. ASSUME NEW k \in 1 .. n + 1
        PROVE  /\ k < 1 + b => k \in 1 .. n /\ addr[r[k]].expires = K[k] /\ K[k] <= x
               /\ k = 1 + b => addr[r[k]].expires = x
               /\ k > 1 + b => k - 1 \in 1 .. n /\ addr[r[k]].expires = K[k - 1] /\ ~(K[k - 1] <= x)
    <3>1. CASE k < 1 + b
      <4>1. k \in 1 .. n /\ k <= b
        BY <1>1, <1>5, <3>1
      <4> QED
        BY <1>5, <1>6, <1>8, <3>1, <4>1
    <3>2. CASE k = 1 + b
      BY <1>5, <1>8, <3>2 DEF x
    <3>3. CASE k > 1 + b
      <4>1. k - 1 \in 1 .. n /\ ~(k - 1 <= b) /\ ~(k < 1 + b) /\ k # 1 + b
        BY <1>1, <1>5, <3>3
      <4>2. r[k] = s[k - 1]
        BY <1>8, <4>1
      <4> QED
        BY <1>5, <1>6, <4>1, <4>2
    <3> QED
      BY <1>1, <1>5, <3>1, <3>2, <3>3
  <2>3. x \in Nat /\ \A k \in 1 .. n : K[k] \in Nat
    BY <1>2, <1>3
  <2>4. CASE j < 1 + b
    <3>1. /\ i \in 1 .. n /\ addr[r[i]].expires = K[i]
          /\ j \in 1 .. n /\ addr[r[j]].expires = K[j]
      BY <1>5, <2>2, <2>4
    <3> QED
      BY <1>3, <3>1
  <2>5. CASE j = 1 + b
    <3>1. addr[r[i]].expires = K[i] /\ K[i] <= x /\ addr[r[j]].expires = x
      BY <1>5, <2>2, <2>5
    <3> QED
      BY <3>1
  <2>6. CASE j > 1 + b /\ i < 1 + b
    <3>1. /\ i \in 1 .. n /\ addr[r[i]].expires = K[i] /\ K[i] <= x
          /\ j - 1 \in 1 .. n /\ addr[r[j]].expires = K[j - 1] /\ ~(K[j - 1] <= x)
      BY <2>2, <2>6
    <3> QED
      BY <2>3, <3>1
  <2>7. CASE i = 1 + b
    <3>1. /\ addr[r[i]].expires = x /\ x \in Nat
          /\ j - 1 \in 1 .. n /\ addr[r[j]].expires = K[j - 1] /\ ~(K[j - 1] <= x)
      BY <1>5, <2>2, <2>3, <2>7
    <3> QED
      BY <2>3, <3>1
  <2>8. CASE i > 1 + b
    <3>1. /\ i - 1 \in 1 .. n /\ addr[r[i]].expires = K[i - 1]
          /\ j - 1 \in 1 .. n /\ addr[r[j]].expires = K[j - 1]
      BY <1>5, <2>2, <2>8
    <3> QED
      BY <1>3, <3>1
  <2> QED
    BY <1>5, <2>4, <2>5, <2>6, <2>7, <2>8
<1> QED
  BY <1>4, <1>8, <1>9, <1>10

(* The headers made join the tree of expiry times. *)
LEMMA MergedExact ==
  ASSUME CacheTypes, IsInjective(byExpiry), InOrder(byExpiry), IsInjective(task.made),
         Made \cap ToSet(byExpiry) = {}
  PROVE  /\ Merged \in Seq(Places) /\ IsInjective(Merged) /\ InOrder(Merged)
         /\ ToSet(Merged) = ToSet(byExpiry) \cup Made
<1> DEFINE made == task.made
           N == Len(made)
           base == byExpiry
           Step(k, x) == InsertByExpiry(x, made[k])
           Def(f) == [k \in 0 .. N |-> IF k = 0 THEN base ELSE InsertByExpiry(f[k - 1], made[k])]
           F == CHOOSE f : f = Def(f)
           S == {x \in Seq(Places) : InOrder(x)}
<1>1. Merged = F[N]
  BY DEF Merged
<1>2. N \in Nat /\ made \in Seq(Places) /\ DOMAIN made = 1 .. N
  BY DEF CacheTypes
<1>3. base \in Seq(Places) /\ IsInjective(base) /\ InOrder(base)
  BY DEF CacheTypes
<1>M. \A j, k \in 1 .. N : made[j] = made[k] => j = k
  BY <1>2 DEF IsInjective
<1>8. Made = {made[k] : k \in 1 .. N}
  BY <1>2 DEF Made, ToSet, made
<1>9. \A k \in 1 .. N : made[k] \notin ToSet(base)
  BY <1>8
<1> HIDE DEF made, N
<1>E. base \in S /\ \A k \in 1 .. N : \A x \in S : Step(k, x) \in S
  BY <1>2, <1>3, InsertByExpiryExact
<1>T. \A k \in 1 .. N : \A x \in S : IsInjective(x) /\ made[k] \notin ToSet(x) =>
        IsInjective(Step(k, x)) /\ ToSet(Step(k, x)) = ToSet(x) \cup {made[k]}
  BY <1>2, InsertByExpiryExact
<1>S. \A x \in S : x \in Seq(Places) /\ InOrder(x)
  OBVIOUS
<1> HIDE DEF S, base
<1>4. F = Def(F)
  <2> DEFINE G == [k \in 1 .. N |-> [x \in S |-> Step(k, x)]]
  <2> HIDE DEF Step
  <2>1. G \in [1 .. N -> [S -> S]]
    BY <1>E
  <2>2. Iterations(S, N, base, G) # {}
    <3>1. N \in Nat /\ base \in S
      BY <1>2, <1>E
    <3> HIDE DEF G
    <3> QED
      BY <3>1, <2>1, Iterate
  <2>3. PICK f \in [0 .. N -> S] : f[0] = base /\ \A n \in 1 .. N : f[n] = G[n][f[n - 1]]
    BY <2>2 DEF Iterations
  <2>4. \A n \in 1 .. N : f[n] = Step(n, f[n - 1])
    <3> SUFFICES ASSUME NEW n \in 1 .. N PROVE f[n] = Step(n, f[n - 1])
      OBVIOUS
    <3>1. f[n - 1] \in S
      BY <1>2
    <3> QED
      BY <2>3, <3>1
  <2>5. f = Def(f)
    <3>1. \A k \in 0 .. N : k = 0 \/ k \in 1 .. N
      BY <1>2
    <3> QED
      BY <2>3, <2>4, <3>1 DEF Step
  <2> HIDE DEF Def
  <2> QED
    BY <2>5
<1>5. F[0] = base /\ \A n \in 1 .. N : F[n] = Step(n, F[n - 1])
  <2> HIDE DEF F
  <2>1. \A n \in 1 .. N : n \in 0 .. N /\ n # 0
    BY <1>2
  <2>2. F[0] = base
    BY <1>2, <1>4
  <2> QED
    BY <1>4, <2>1, <2>2
<1> HIDE DEF F, Step
<1> DEFINE held == {n \in 0 .. N : /\ F[n] \in S /\ IsInjective(F[n])
                               /\ ToSet(F[n]) = ToSet(base) \cup {made[k] : k \in 1 .. n}}
<1>6. 0 .. N \subseteq held
  <2>1. 0 \in held
    <3>1. {made[k] : k \in 1 .. 0} = {}
      OBVIOUS
    <3> QED
      BY <1>2, <1>3, <1>5, <1>E, <3>1
  <2>2. ASSUME NEW n \in 1 .. N, n - 1 \in held PROVE n \in held
    <3>1. /\ F[n - 1] \in S /\ IsInjective(F[n - 1])
          /\ ToSet(F[n - 1]) = ToSet(base) \cup {made[k] : k \in 1 .. n - 1}
      BY <2>2
    <3>2. made[n] \notin ToSet(F[n - 1])
      <4>1. \A k \in 1 .. n - 1 : k \in 1 .. N /\ k # n
        BY <1>2
      <4> QED
        BY <1>9, <1>M, <3>1, <4>1
    <3>3. F[n] \in S /\ IsInjective(F[n]) /\ ToSet(F[n]) = ToSet(F[n - 1]) \cup {made[n]}
      BY <1>5, <1>E, <1>T, <3>1, <3>2
    <3>4. {made[k] : k \in 1 .. n} = {made[k] : k \in 1 .. n - 1} \cup {made[n]}
      OBVIOUS
    <3> QED
      BY <1>2, <3>1, <3>3, <3>4
  <2> HIDE DEF held
  <2> QED
    BY <1>2, <2>1, <2>2, UpTo
<1>7. N \in held
  BY <1>2, <1>6
<1> QED
  BY <1>1, <1>7, <1>8, <1>S DEF base

-----------------------------------------------------------------------------
(* Every action keeps the indexes.                                          *)

LEMMA CacheInitInv ==
  ASSUME CacheInit
  PROVE  CacheInv
<1>1. LiveNames = {} /\ LiveAddrs = {} /\ Made = {}
  BY DEF CacheInit, LiveNames, LiveAddrs, Made, ToSet, NoTask
<1>2. NoTask \in [name : Nat, header : Nat, new : BOOLEAN, left : SUBSET Group, made : Seq(Places)]
  BY DEF NoTask
<1>3. NoAddr \in AddrHeader
  BY DEF NoAddr, AddrHeader
<1>4. CacheTypes
  BY <1>2, <1>3, LettersNat DEF CacheInit, CacheTypes, CacheTypeOK, NoCall
<1>5. NamesLinked /\ ExpiryLinked
  BY <1>1 DEF CacheInit, NamesLinked, ExpiryLinked, InOrder, IsInjective, ToSet
<1>6. PushLinked
  BY <1>1 DEF CacheInit, PushLinked, NoTask, IsInjective
<1> QED
  BY <1>4, <1>5, <1>6 DEF CacheInit, CacheInv, ClientsAsk, NoCall

(* Steps of clients and of the clock. *)
Untouched == UNCHANGED <<names, label, ips, addr, byExpiry, task>>

LEMMA UntouchedStep ==
  ASSUME CacheInv, Untouched, CacheTypeOK', out' \in [Clients -> Seq(Entry)], ClientsAsk',
         mode = "pushing" <=> mode' = "pushing"
  PROVE  CacheInv'
<1>1. CacheTypes'
  BY DEF CacheInv, CacheTypes, Untouched
<1>2. /\ LiveNames' = LiveNames /\ LiveAddrs' = LiveAddrs /\ Made' = Made
      /\ \A n : AddrsOf(n)' = AddrsOf(n)
  BY DEF Untouched, LiveNames, LiveAddrs, Made, AddrsOf
<1>3. NamesLinked'
  BY <1>2 DEF CacheInv, NamesLinked, Untouched
<1>4. ExpiryLinked'
  BY <1>2 DEF CacheInv, ExpiryLinked, InOrder, Untouched
<1>5. PushLinked'
  BY <1>2 DEF CacheInv, PushLinked, Untouched
<1> QED
  BY <1>1, <1>3, <1>4, <1>5 DEF CacheInv

LEMMA ResolveStep ==
  ASSUME CacheInv, NEW c \in Clients, NEW raw \in RawNames, Resolve(c, raw)
  PROVE  CacheInv'
<1>1. CacheTypeOK' /\ ClientsAsk'
  BY DEF CacheInv, CacheTypes, CacheTypeOK, ClientsAsk, Resolve
<1>2. Untouched /\ out' \in [Clients -> Seq(Entry)] /\ (mode = "pushing" <=> mode' = "pushing")
  BY DEF CacheInv, CacheTypes, Resolve, Untouched
<1> QED
  BY <1>1, <1>2, UntouchedStep

LEMMA PruneEndsStep ==
  ASSUME CacheInv, PruneEnds
  PROVE  CacheInv'
<1>1. CacheTypeOK' /\ ClientsAsk'
  BY DEF CacheInv, CacheTypes, CacheTypeOK, ClientsAsk, PruneEnds
<1>2. Untouched /\ out' \in [Clients -> Seq(Entry)] /\ (mode = "pushing" <=> mode' = "pushing")
  BY DEF CacheInv, CacheTypes, PruneEnds, Untouched
<1> QED
  BY <1>1, <1>2, UntouchedStep

(* The caller's buffer after a call. *)
LEMMA KeepType ==
  ASSUME CacheTypes, NEW c \in Clients, NEW buffer \in Seq(Entry), Keep(c, buffer)
  PROVE  out' \in [Clients -> Seq(Entry)]
<1> DEFINE b == IF Reuse THEN buffer ELSE <<>>
<1>1. b \in Seq(Entry)
  OBVIOUS
<1>2. out' = [out EXCEPT ![c] = b]
  BY DEF Keep
<1> HIDE DEF b
<1> QED
  BY <1>1, <1>2 DEF CacheTypes

(* A call that ends, and leaves something in the buffer. *)
LEMMA ReturnStep ==
  ASSUME CacheInv, NEW c \in Clients, NEW buffer \in Seq(Entry), Keep(c, buffer),
         client' = [client EXCEPT ![c] = NoCall],
         UNCHANGED <<now, names, label, ips, addr, byExpiry, mode, task>>
  PROVE  CacheInv'
<1>1. CacheTypeOK' /\ ClientsAsk'
  BY DEF CacheInv, CacheTypes, CacheTypeOK, ClientsAsk, NoCall
<1>2. out' \in [Clients -> Seq(Entry)]
  BY KeepType DEF CacheInv
<1>3. Untouched
  BY DEF Untouched
<1> QED
  BY <1>1, <1>2, <1>3, UntouchedStep

LEMMA HostsHitStep ==
  ASSUME CacheInv, NEW c \in Clients, HostsHit(c)
  PROVE  CacheInv'
<1>1. client[c].name \in 1 .. 2 * Letters
  BY LettersNat DEF CacheInv, ClientsAsk, HostsHit
<1>2. <<client[c].name, "x", 0>> \in Entry
  BY <1>1 DEF Entry, Addresses
<1>3. <<<<client[c].name, "x", 0>>>> \in Seq(Entry)
  BY <1>2
<1>4. Written(c, <<<<client[c].name, "x", 0>>>>) \in Seq(Entry)
  BY <1>3, WrittenType DEF CacheInv
<1> QED
  BY <1>4, ReturnStep DEF HostsHit

LEMMA PullHitStep ==
  ASSUME CacheInv, NEW c \in Clients, PullHit(c)
  PROVE  CacheInv'
<1>1. Written(c, Lookup(client[c].name)) \in Seq(Entry)
  BY LookupType, WrittenType DEF CacheInv
<1> QED
  BY <1>1, ReturnStep DEF PullHit

LEMMA AskFailsStep ==
  ASSUME CacheInv, NEW c \in Clients, NEW answer \in Batches, AskFails(c, answer)
  PROVE  CacheInv'
<1>1. Received(c, answer) \in Seq(Entry)
  BY ReceivedType DEF CacheInv, ClientsAsk, AskFails
<1> QED
  BY <1>1, ReturnStep DEF AskFails

LEMMA PullMissStep ==
  ASSUME CacheInv, NEW c \in Clients, PullMiss(c)
  PROVE  CacheInv'
<1>1. CacheTypeOK' /\ ClientsAsk'
  BY ZenonT(60) DEF CacheInv, CacheTypes, CacheTypeOK, ClientsAsk, PullMiss
<1>2. Untouched /\ out' \in [Clients -> Seq(Entry)] /\ (mode = "pushing" <=> mode' = "pushing")
  BY DEF CacheInv, CacheTypes, PullMiss, Untouched
<1> QED
  BY <1>1, <1>2, UntouchedStep

LEMMA TickStep ==
  ASSUME CacheInv, Tick
  PROVE  CacheInv'
<1>1. CacheTypeOK' /\ ClientsAsk'
  BY LettersNat DEF CacheInv, CacheTypes, CacheTypeOK, ClientsAsk, Tick
<1>2. Untouched /\ out' \in [Clients -> Seq(Entry)] /\ (mode = "pushing" <=> mode' = "pushing")
  BY DEF CacheInv, CacheTypes, Tick, Untouched
<1> QED
  BY <1>1, <1>2, UntouchedStep

LEMMA DestroyCacheStep ==
  ASSUME CacheInv, DestroyCache
  PROVE  CacheInv'
<1>0. task = NoTask /\ task' = NoTask
  BY DEF CacheInv, PushLinked, DestroyCache
<1>1. LiveNames' = {} /\ LiveAddrs' = {} /\ Made' = {}
  BY <1>0 DEF DestroyCache, LiveNames, LiveAddrs, Made, ToSet, NoTask
<1>3. NoAddr \in AddrHeader
  BY DEF NoAddr, AddrHeader
<1>4. CacheTypes'
  BY <1>3 DEF CacheInv, DestroyCache, CacheTypes, CacheTypeOK
<1>5. NamesLinked' /\ ExpiryLinked'
  BY <1>1 DEF DestroyCache, NamesLinked, ExpiryLinked, InOrder, IsInjective, ToSet
<1>6. PushLinked'
  BY <1>0, <1>1 DEF DestroyCache, PushLinked, NoTask, IsInjective
<1> QED
  BY <1>4, <1>5, <1>6 DEF CacheInv, DestroyCache, ClientsAsk

(* prune() takes the header that expires first out of both indexes, and     *)
(* the name with it if it was the last.                                     *)
LEMMA PruneOneStep ==
  ASSUME CacheInv, PruneOne
  PROVE  CacheInv'
<1> DEFINE a == Head(byExpiry)
           n == addr[a].parent
           rest == RemoveFirst(ips[n], a)
<1>0. CacheTypes /\ NamesLinked /\ ExpiryLinked /\ task = NoTask /\ mode = "pruning"
  BY DEF CacheInv, PushLinked, PruneOne, PruneNext
<1>1. Made = {} /\ IsInjective(task.made) /\ task' = NoTask /\ mode' = "pruning" /\ Made' = {} /\ IsInjective(task.made)'
  BY <1>0 DEF Made, ToSet, NoTask, PruneOne, IsInjective
<1>2. /\ byExpiry' = Tail(byExpiry)
      /\ addr' = [addr EXCEPT ![a] = NoAddr]
      /\ ips' = [ips EXCEPT ![n] = rest]
      /\ names' = IF rest = <<>> THEN RemoveFirst(names, n) ELSE names
      /\ label' = IF rest = <<>> THEN [label EXCEPT ![n] = 0] ELSE label
      /\ UNCHANGED <<now, mode, task, client, out>>
  BY DEF PruneOne, LastOf
<1>3. /\ byExpiry \in Seq(Places) /\ IsInjective(byExpiry) /\ ToSet(byExpiry) = LiveAddrs
      /\ byExpiry # <<>> /\ InOrder(byExpiry)
  BY <1>0, <1>1 DEF CacheTypes, ExpiryLinked, PruneOne, PruneNext
<1>4. /\ a = byExpiry[1] /\ a \in ToSet(byExpiry) /\ Tail(byExpiry) \in Seq(Places)
      /\ Len(Tail(byExpiry)) = Len(byExpiry) - 1
      /\ \A i \in 1 .. Len(byExpiry) - 1 : Tail(byExpiry)[i] = byExpiry[i + 1]
      /\ IsInjective(Tail(byExpiry)) /\ ToSet(Tail(byExpiry)) = ToSet(byExpiry) \ {a}
  BY <1>3, TailOnce
<1> HIDE DEF a
<1>5. a \in LiveAddrs /\ a \in Places /\ n \in LiveNames /\ n \in Places
  BY <1>0, <1>3, <1>4 DEF NamesLinked, LiveAddrs, LiveNames, CacheTypes, ToSet
<1>6. ips[n] \in Seq(Places) /\ IsInjective(ips[n]) /\ ToSet(ips[n]) = AddrsOf(n)
  BY <1>0, <1>5 DEF CacheTypes, NamesLinked
<1>7. rest \in Seq(Places) /\ IsInjective(rest) /\ ToSet(rest) = AddrsOf(n) \ {a}
  BY <1>6, RemoveOnce
<1> HIDE DEF rest
<1>8. /\ names \in Seq(Places) /\ IsInjective(names) /\ RemoveFirst(names, n) \in Seq(Places)
      /\ IsInjective(RemoveFirst(names, n)) /\ ToSet(RemoveFirst(names, n)) = LiveNames \ {n}
  <2>1. names \in Seq(Places) /\ IsInjective(names)
    BY <1>0 DEF CacheTypes, NamesLinked
  <2> HIDE DEF n
  <2> QED
    BY <2>1, RemoveOnce DEF LiveNames
<1>9. NoAddr \in AddrHeader
  BY DEF NoAddr, AddrHeader
<1>10. CacheTypes'
  <2>1. label' \in [Places -> Nat]
    BY <1>0, <1>2 DEF CacheTypes
  <2>2. names' \in Seq(Places)
    BY <1>2, <1>8
  <2>3. addr' \in [Places -> AddrHeader] /\ ips' \in [Places -> Seq(Places)]
    BY <1>0, <1>2, <1>5, <1>7, <1>9 DEF CacheTypes
  <2> QED
    BY <1>0, <1>2, <1>4, <2>1, <2>2, <2>3 DEF CacheTypes, CacheTypeOK
<1>11. \A b \in Places : addr'[b] = IF b = a THEN NoAddr ELSE addr[b]
  BY <1>0, <1>2 DEF CacheTypes
<1>12. LiveAddrs' = LiveAddrs \ {a}
  BY <1>11 DEF LiveAddrs
<1>13. \A m : AddrsOf(m)' = AddrsOf(m) \ {a}
  BY <1>11, <1>12 DEF AddrsOf, LiveAddrs
<1>14. /\ rest = <<>> => LiveNames' = LiveNames \ {n} /\ AddrsOf(n) \ {a} = {}
       /\ rest # <<>> => LiveNames' = LiveNames
  <2>1. rest = <<>> => ToSet(rest) = {}
    BY DEF ToSet
  <2> QED
    BY <1>2, <1>7, <1>8, <2>1 DEF LiveNames
<1>15. \A m \in Places : ips'[m] = IF m = n THEN rest ELSE ips[m]
  BY <1>0, <1>2 DEF CacheTypes
<1>16. \A m \in Places : m # n => label'[m] = label[m]
  BY <1>0, <1>2 DEF CacheTypes
<1>17. LiveNames \subseteq Places /\ LiveAddrs \subseteq Places
  BY <1>0 DEF LiveNames, LiveAddrs, CacheTypes, ToSet
<1>18. NamesLinked'
  <2>1. IsInjective(names')
    BY <1>2, <1>8
  <2>2. LiveNames' \cap LiveAddrs' = {}
    BY <1>0, <1>12, <1>14 DEF NamesLinked
  <2>3. \A m \in LiveNames' : label'[m] \in Stored
    <3> SUFFICES ASSUME NEW m \in LiveNames' PROVE label'[m] \in Stored
      OBVIOUS
    <3>1. m \in LiveNames /\ (rest = <<>> => m # n)
      BY <1>14
    <3>2. label[m] \in Stored /\ label'[m] = label[m]
      BY <1>0, <1>2, <1>16, <1>17, <3>1 DEF NamesLinked
    <3> QED
      BY <3>2
  <2>4. \A b \in LiveAddrs' : addr'[b].parent \in LiveNames'
    <3> SUFFICES ASSUME NEW b \in LiveAddrs' PROVE addr'[b].parent \in LiveNames'
      OBVIOUS
    <3>1. b \in LiveAddrs /\ b # a /\ addr'[b] = addr[b] /\ addr[b].parent \in LiveNames
      BY <1>0, <1>11, <1>12, <1>17 DEF NamesLinked
    <3>2. rest = <<>> => addr[b].parent # n
      BY <1>14, <3>1 DEF AddrsOf
    <3> QED
      BY <1>14, <3>1, <3>2
  <2>5. \A m \in LiveNames' : IsInjective(ips'[m]) /\ ToSet(ips'[m]) = AddrsOf(m)'
    <3> SUFFICES ASSUME NEW m \in LiveNames' PROVE IsInjective(ips'[m]) /\ ToSet(ips'[m]) = AddrsOf(m)'
      OBVIOUS
    <3>1. m \in LiveNames /\ m \in Places
      BY <1>14, <1>17
    <3>2. CASE m = n
      BY <1>7, <1>13, <1>15, <3>1, <3>2
    <3>3. CASE m # n
      <4>1. a \notin AddrsOf(m)
        BY <3>3 DEF AddrsOf
      <4>2. ips'[m] = ips[m] /\ IsInjective(ips[m]) /\ ToSet(ips[m]) = AddrsOf(m) /\ AddrsOf(m)' = AddrsOf(m)
        BY <1>0, <1>13, <1>15, <3>1, <3>3, <4>1 DEF NamesLinked
      <4> QED
        BY <4>2
    <3> QED
      BY <3>2, <3>3
  <2> QED
    BY <2>1, <2>2, <2>3, <2>4, <2>5 DEF NamesLinked
<1>19. ExpiryLinked'
  <2>1. ToSet(byExpiry') = LiveAddrs' \ Made'
    BY <1>1, <1>2, <1>3, <1>4, <1>12
  <2>2. InOrder(byExpiry)'
    <3>1. Len(byExpiry) \in Nat /\ DOMAIN byExpiry = 1 .. Len(byExpiry) /\ DOMAIN byExpiry' = 1 .. Len(byExpiry) - 1
      BY <1>2, <1>3, <1>4
    <3> SUFFICES ASSUME NEW i \in 1 .. Len(byExpiry) - 1, NEW j \in 1 .. Len(byExpiry) - 1, i < j
                 PROVE  addr'[byExpiry'[i]].expires <= addr'[byExpiry'[j]].expires
      BY <3>1 DEF InOrder
    <3>2. \A k \in 1 .. Len(byExpiry) - 1 :
            k + 1 \in DOMAIN byExpiry /\ byExpiry'[k] = byExpiry[k + 1] /\ addr'[byExpiry'[k]] = addr[byExpiry[k + 1]]
      <4> SUFFICES ASSUME NEW k \in 1 .. Len(byExpiry) - 1
                   PROVE  k + 1 \in DOMAIN byExpiry /\ byExpiry'[k] = byExpiry[k + 1]
                          /\ addr'[byExpiry'[k]] = addr[byExpiry[k + 1]]
        OBVIOUS
      <4>1. k + 1 \in DOMAIN byExpiry /\ byExpiry'[k] = byExpiry[k + 1]
        BY <1>2, <1>4, <3>1
      <4>2. byExpiry'[k] \in ToSet(byExpiry')
        BY <3>1 DEF ToSet
      <4>3. byExpiry'[k] # a /\ byExpiry'[k] \in Places
        BY <1>2, <1>3, <1>4, <1>17, <4>2
      <4> QED
        BY <1>11, <4>1, <4>3
    <3>3. i + 1 < j + 1
      OBVIOUS
    <3> QED
      BY <1>3, <3>2, <3>3 DEF InOrder
  <2> QED
    BY <1>2, <1>4, <2>1, <2>2 DEF ExpiryLinked
<1>20. PushLinked'
  BY <1>1 DEF PushLinked
<1>21. ClientsAsk'
  BY <1>2 DEF CacheInv, ClientsAsk
<1> QED
  BY <1>10, <1>18, <1>19, <1>20, <1>21 DEF CacheInv

(* Memory that the allocator gives is not in use. *)
LEMMA FreeId ==
  ASSUME CacheInv, FreeIds # {}
  PROVE  /\ Min(FreeIds) \in Places /\ Min(FreeIds) \notin LiveNames /\ Min(FreeIds) \notin LiveAddrs
         /\ Min(FreeIds) \in Nat /\ Min(FreeIds) # 0 /\ AddrsOf(Min(FreeIds)) = {}
<1>1. FreeIds \subseteq Nat
  BY LettersNat DEF FreeIds, Places
<1>2. Min(FreeIds) \in FreeIds
  BY <1>1, MinNat
<1>3. Min(FreeIds) \in Places /\ Min(FreeIds) \notin LiveNames /\ Min(FreeIds) \notin LiveAddrs
  BY <1>2 DEF FreeIds
<1>4. Min(FreeIds) \in Nat /\ Min(FreeIds) # 0
  BY <1>3, LettersNat DEF Places
<1>5. AddrsOf(Min(FreeIds)) = {}
  BY <1>3 DEF CacheInv, NamesLinked, AddrsOf
<1> QED
  BY <1>3, <1>4, <1>5

(* push_impl() finds its name or makes it. *)
LEMMA PushNameStep ==
  ASSUME CacheInv, NEW c \in Clients, NEW answer \in Batches, PushName(c, answer)
  PROVE  CacheInv'
<1> DEFINE raw == client[c].name
           buffer == Received(c, answer)
           groups == Groups(ToSet(buffer))
           k == LowerBound(raw) + 1
           known == k \in DOMAIN names /\ label[names[k]] = raw
           n == IF known THEN names[k] ELSE Min(FreeIds)
<1>0. CacheTypes /\ NamesLinked /\ ExpiryLinked /\ task = NoTask /\ mode = "idle" /\ ClientsAsk
  BY DEF CacheInv, PushLinked, PushName
<1>1. /\ known \/ FreeIds # {}
      /\ Keep(c, buffer)
      /\ task' = [name |-> raw, header |-> n, new |-> ~known, left |-> groups, made |-> <<>>]
      /\ mode' = "pushing"
      /\ client' = [client EXCEPT ![c] = NoCall]
      /\ UNCHANGED <<now, addr, byExpiry>>
  BY SMTT(30) DEF PushName
<1>2. /\ known => UNCHANGED <<names, label, ips>>
      /\ ~known => /\ names' = InsertAt(names, k, n)
                   /\ label' = [label EXCEPT ![n] = StoredName(raw)]
                   /\ ips' = [ips EXCEPT ![n] = <<>>]
  BY DEF PushName
<1>3. raw \in RawNames /\ raw \in Nat /\ raw \in 1 .. 2 * Letters
  <2>1. raw \in RawNames
    BY DEF CacheInv, ClientsAsk, PushName
  <2>2. RawNames \subseteq 1 .. 2 * Letters /\ 1 .. 2 * Letters \subseteq Nat
    BY LettersNat
  <2> HIDE DEF raw
  <2> QED
    BY <2>1, <2>2
<1>4. buffer \in Seq(Entry)
  BY <1>0, <1>3, ReceivedType
<1>5. groups \subseteq Group
  <2>1. ToSet(buffer) \subseteq Entry
    BY <1>4 DEF ToSet
  <2> QED
    BY <1>0, <2>1, GroupsType
<1>6. out' \in [Clients -> Seq(Entry)]
  BY <1>0, <1>1, <1>4, KeepType
<1> HIDE DEF buffer, groups
<1>7. k \in 1 .. Len(names) + 1
  BY <1>0, LowerBoundType DEF CacheTypes
<1>8. StoredName(raw) \in Stored /\ StoredName(raw) \in Nat
  BY <1>3, LowerStored, LettersNat DEF StoredName
<1>9. names \in Seq(Places) /\ IsInjective(names) /\ LiveNames \subseteq Places
  BY <1>0 DEF CacheTypes, NamesLinked, LiveNames, ToSet
<1> HIDE DEF k, raw
<1>10. known => n \in LiveNames /\ n \in Nat /\ LiveNames' = LiveNames
  <2>1. known => n \in LiveNames
    BY DEF LiveNames, ToSet
  <2>2. Places \subseteq Nat
    BY LettersNat DEF Places
  <2> QED
    BY <1>2, <1>9, <2>1, <2>2 DEF LiveNames
<1>11. ~known => n = Min(FreeIds) /\ n \in Places /\ n \notin LiveNames /\ n \notin LiveAddrs /\ n \in Nat /\ AddrsOf(n) = {}
  BY <1>1, FreeId
<1>F. known \in BOOLEAN
  OBVIOUS
<1> HIDE DEF n, known
<1>12. ~known => names' \in Seq(Places) /\ IsInjective(names') /\ LiveNames' = LiveNames \cup {n}
  <2> SUFFICES ASSUME ~known PROVE names' \in Seq(Places) /\ IsInjective(names') /\ LiveNames' = LiveNames \cup {n}
    OBVIOUS
  <2>1. n \in Places /\ n \notin ToSet(names)
    BY <1>11 DEF LiveNames
  <2>2. InsertAt(names, k, n) \in Seq(Places)
    BY <1>7, <1>9, <2>1, InsertAtIndex
  <2>3. IsInjective(InsertAt(names, k, n)) /\ ToSet(InsertAt(names, k, n)) = ToSet(names) \cup {n}
    BY <1>7, <1>9, <2>1, InsertOnce
  <2> QED
    BY <1>2, <2>2, <2>3 DEF LiveNames
<1>13. LiveAddrs' = LiveAddrs /\ Made = {} /\ Made' = {} /\ \A m : AddrsOf(m)' = AddrsOf(m)
  BY <1>0, <1>1 DEF LiveAddrs, Made, AddrsOf, NoTask, ToSet
<1>14. /\ \A m \in Places : m # n => ips'[m] = ips[m] /\ label'[m] = label[m]
       /\ known => ips' = ips /\ label' = label
       /\ ~known => ips'[n] = <<>> /\ label'[n] = StoredName(raw)
  BY <1>0, <1>2, <1>11 DEF CacheTypes
<1>15. n \in LiveNames' /\ n \in Nat
  BY <1>10, <1>11, <1>12
<1>16. CacheTypes'
  <2>1. names' \in Seq(Places) /\ byExpiry' \in Seq(Places)
    BY <1>0, <1>1, <1>2, <1>12 DEF CacheTypes
  <2>2. label' \in [Places -> Nat] /\ ips' \in [Places -> Seq(Places)]
    <3>1. <<>> \in Seq(Places) /\ label \in [Places -> Nat] /\ ips \in [Places -> Seq(Places)]
      BY <1>0 DEF CacheTypes
    <3>2. CASE known
      BY <1>2, <3>1, <3>2
    <3>3. CASE ~known
      BY <1>2, <1>8, <3>1, <3>3
    <3> QED
      BY <3>2, <3>3
  <2>3. addr' \in [Places -> AddrHeader]
    BY <1>0, <1>1 DEF CacheTypes
  <2>4. task' \in [name : Nat, header : Nat, new : BOOLEAN, left : SUBSET Group, made : Seq(Places)]
    <3>1. <<>> \in Seq(Places) /\ (~known) \in BOOLEAN
      OBVIOUS
    <3> QED
      BY <1>1, <1>3, <1>5, <1>15, <3>1
  <2>5. CacheTypeOK'
    BY <1>0, <1>1 DEF CacheTypes, CacheTypeOK, NoCall
  <2> QED
    BY <1>6, <2>1, <2>2, <2>3, <2>4, <2>5 DEF CacheTypes
<1>17. NamesLinked'
  <2>1. IsInjective(names') /\ LiveNames' \cap LiveAddrs' = {}
    BY <1>0, <1>2, <1>9, <1>10, <1>11, <1>12, <1>13 DEF NamesLinked
  <2>2. \A m \in LiveNames' : label'[m] \in Stored
    BY <1>0, <1>8, <1>9, <1>10, <1>12, <1>14 DEF NamesLinked
  <2>3. \A a \in LiveAddrs' : addr'[a].parent \in LiveNames'
    BY <1>0, <1>1, <1>10, <1>12, <1>13 DEF NamesLinked
  <2>4. \A m \in LiveNames' : IsInjective(ips'[m]) /\ ToSet(ips'[m]) = AddrsOf(m)'
    <3> SUFFICES ASSUME NEW m \in LiveNames' PROVE IsInjective(ips'[m]) /\ ToSet(ips'[m]) = AddrsOf(m)'
      OBVIOUS
    <3>1. CASE m \in LiveNames /\ ips'[m] = ips[m]
      BY <1>0, <1>13, <3>1 DEF NamesLinked
    <3>2. CASE ~known /\ m = n
      <4>1. IsInjective(<<>>) /\ ToSet(<<>>) = {}
        BY DEF IsInjective, ToSet
      <4> QED
        BY <1>11, <1>13, <1>14, <3>2, <4>1
    <3> QED
      BY <1>9, <1>10, <1>11, <1>12, <1>14, <3>1, <3>2
  <2> QED
    BY <2>1, <2>2, <2>3, <2>4 DEF NamesLinked
<1>18. ExpiryLinked'
  BY <1>0, <1>1, <1>13 DEF ExpiryLinked, InOrder
<1>19. PushLinked'
  <2>1. task'.made = <<>> /\ task'.header = n /\ task'.new = ~known /\ IsInjective(<<>>)
    BY <1>1 DEF IsInjective
  <2>2. task'.new => AddrsOf(n) = {}
    BY <1>11, <2>1
  <2>3. AddrsOf(task.header)' = AddrsOf(n)
    BY <1>1, <2>1 DEF AddrsOf, LiveAddrs
  <2> QED
    BY <1>1, <1>13, <1>15, <2>1, <2>2, <2>3 DEF PushLinked
<1>20. ClientsAsk'
  BY <1>0, <1>1 DEF ClientsAsk, NoCall, CacheTypes, CacheTypeOK
<1> QED
  BY <1>16, <1>17, <1>18, <1>19, <1>20 DEF CacheInv

(* One more address header, in front of the list of its name. *)
LEMMA PushGroupStep ==
  ASSUME CacheInv, PushGroup
  PROVE  CacheInv'
<1> DEFINE g == Earliest(task.left)
           a == Min(FreeIds)
           h == task.header
           head == [parent |-> h, expires |-> g.expires, addrs |-> g.addrs]
<1>0. CacheTypes /\ NamesLinked /\ ExpiryLinked /\ PushLinked /\ ClientsAsk /\ mode = "pushing"
  BY DEF CacheInv, PushGroup
<1>1. /\ task.left # {} /\ FreeIds # {}
      /\ addr' = [addr EXCEPT ![a] = head]
      /\ ips' = [ips EXCEPT ![h] = <<a>> \o ips[h]]
      /\ task' = [task EXCEPT !.left = task.left \ {g}, !.made = Append(task.made, a)]
      /\ UNCHANGED <<now, names, label, byExpiry, mode, client, out>>
  BY DEF PushGroup
<1>2. /\ a \in Places /\ a \notin LiveNames /\ a \notin LiveAddrs
  BY <1>1, FreeId
<1>3. task.left \subseteq Group /\ task.made \in Seq(Places) /\ IsInjective(task.made) /\ h \in Nat
  BY <1>0 DEF CacheTypes, PushLinked
<1>4. g \in Group
  BY <1>1, <1>3, EarliestIn
<1>5. h \in LiveNames /\ h \in Places /\ h # 0 /\ LiveNames \subseteq Places /\ LiveAddrs \subseteq Places
  <2>1. h \in LiveNames /\ LiveNames \subseteq Places
    BY <1>0 DEF PushLinked, CacheTypes, LiveNames, ToSet
  <2>2. 0 \notin Places /\ LiveAddrs \subseteq Places
    BY LettersNat DEF Places, LiveAddrs
  <2> QED
    BY <2>1, <2>2
<1> HIDE DEF g, a, h
<1>6. head \in AddrHeader /\ head # NoAddr /\ head.parent = h
  BY <1>3, <1>4, <1>5 DEF AddrHeader, Group, NoAddr
<1> HIDE DEF head
<1>7. ips[h] \in Seq(Places) /\ IsInjective(ips[h]) /\ ToSet(ips[h]) = AddrsOf(h) /\ a \notin ToSet(ips[h])
  BY <1>0, <1>2, <1>5 DEF CacheTypes, NamesLinked, AddrsOf
<1>8. <<a>> \o ips[h] \in Seq(Places) /\ IsInjective(<<a>> \o ips[h]) /\ ToSet(<<a>> \o ips[h]) = AddrsOf(h) \cup {a}
  BY <1>2, <1>7, PrependOnce
<1>9. a \notin ToSet(task.made) /\ Made \subseteq AddrsOf(h)
  BY <1>0, <1>2 DEF PushLinked, Made, AddrsOf, h
<1>10. /\ Append(task.made, a) \in Seq(Places) /\ IsInjective(Append(task.made, a))
       /\ ToSet(Append(task.made, a)) = Made \cup {a}
  BY <1>2, <1>3, <1>9, AppendOnce DEF Made
<1>11. /\ task'.header = h /\ task'.new = task.new /\ task'.name = task.name
       /\ task'.left = task.left \ {g} /\ task'.made = Append(task.made, a)
  BY <1>0, <1>1 DEF CacheTypes, h
<1>12. \A b \in Places : addr'[b] = IF b = a THEN head ELSE addr[b]
  BY <1>0, <1>1, <1>2 DEF CacheTypes
<1>13. LiveAddrs' = LiveAddrs \cup {a} /\ LiveNames' = LiveNames /\ Made' = Made \cup {a}
  BY <1>1, <1>2, <1>6, <1>10, <1>11, <1>12 DEF LiveAddrs, LiveNames, Made
<1>14. \A m : AddrsOf(m)' = IF m = h THEN AddrsOf(m) \cup {a} ELSE AddrsOf(m)
  BY <1>2, <1>5, <1>6, <1>12, <1>13 DEF AddrsOf
<1>15. \A m \in Places : ips'[m] = IF m = h THEN <<a>> \o ips[h] ELSE ips[m]
  BY <1>0, <1>1 DEF CacheTypes
<1>16. CacheTypes'
  <2>1. addr' \in [Places -> AddrHeader] /\ ips' \in [Places -> Seq(Places)]
    BY <1>0, <1>1, <1>6, <1>8 DEF CacheTypes
  <2>2. task' \in [name : Nat, header : Nat, new : BOOLEAN, left : SUBSET Group, made : Seq(Places)]
    <3> DEFINE made == Append(task.made, a)
               left == task.left \ {g}
    <3>1. task' = [task EXCEPT !.left = left, !.made = made] /\ left \in SUBSET Group /\ made \in Seq(Places)
      BY <1>1, <1>3, <1>10
    <3>2. task \in [name : Nat, header : Nat, new : BOOLEAN, left : SUBSET Group, made : Seq(Places)]
      BY <1>0 DEF CacheTypes
    <3> HIDE DEF made, left
    <3> QED
      BY <3>1, <3>2
  <2> QED
    BY <1>0, <1>1, <2>1, <2>2 DEF CacheTypes, CacheTypeOK
<1>17. NamesLinked'
  <2>1. IsInjective(names') /\ LiveNames' \cap LiveAddrs' = {} /\ \A m \in LiveNames' : label'[m] \in Stored
    BY <1>0, <1>1, <1>2, <1>13 DEF NamesLinked
  <2>2. \A b \in LiveAddrs' : addr'[b].parent \in LiveNames'
    BY <1>0, <1>2, <1>5, <1>6, <1>12, <1>13 DEF NamesLinked
  <2>3. \A m \in LiveNames' : IsInjective(ips'[m]) /\ ToSet(ips'[m]) = AddrsOf(m)'
    BY <1>0, <1>5, <1>8, <1>13, <1>14, <1>15 DEF NamesLinked
  <2> QED
    BY <2>1, <2>2, <2>3 DEF NamesLinked
<1>18. ExpiryLinked'
  <2>1. byExpiry' = byExpiry /\ IsInjective(byExpiry) /\ ToSet(byExpiry) = LiveAddrs \ Made /\ InOrder(byExpiry)
    BY <1>0, <1>1 DEF ExpiryLinked
  <2>2. ToSet(byExpiry') = LiveAddrs' \ Made'
    BY <1>2, <1>13, <2>1
  <2>3. \A i \in DOMAIN byExpiry : addr'[byExpiry[i]] = addr[byExpiry[i]]
    <3>1. \A i \in DOMAIN byExpiry : byExpiry[i] \in ToSet(byExpiry)
      BY DEF ToSet
    <3> QED
      BY <1>2, <1>5, <1>12, <2>1, <3>1
  <2>4. InOrder(byExpiry)'
    BY <2>1, <2>3 DEF InOrder
  <2> QED
    BY <2>1, <2>2, <2>4 DEF ExpiryLinked
<1>19. PushLinked'
  <2>1. AddrsOf(task.header)' = AddrsOf(h) \cup {a}
    BY <1>11, <1>14 DEF AddrsOf
  <2>2. task.new => AddrsOf(h) = Made
    BY <1>0 DEF PushLinked, h
  <2>3. Made' \subseteq AddrsOf(task.header)' /\ (task'.new => AddrsOf(task.header)' = Made')
    BY <1>9, <1>11, <1>13, <2>1, <2>2
  <2>4. IsInjective(task.made)' /\ task'.header \in LiveNames'
    BY <1>5, <1>10, <1>11, <1>13
  <2> QED
    BY <1>0, <1>1, <2>3, <2>4 DEF PushLinked
<1>20. ClientsAsk'
  BY <1>0, <1>1 DEF ClientsAsk
<1> QED
  BY <1>16, <1>17, <1>18, <1>19, <1>20 DEF CacheInv

(* A failed push takes back what it has made. *)
LEMMA PushFailsStep ==
  ASSUME CacheInv, PushFails
  PROVE  CacheInv'
<1> DEFINE h == task.header
           rest == DropMade(ips[h])
<1>0. CacheTypes /\ NamesLinked /\ ExpiryLinked /\ PushLinked /\ ClientsAsk /\ mode = "pushing"
  BY DEF CacheInv, PushFails
<1>1. /\ ips' = [ips EXCEPT ![h] = rest]
      /\ addr' = [a \in Places |-> IF a \in Made THEN NoAddr ELSE addr[a]]
      /\ names' = IF task.new THEN RemoveFirst(names, h) ELSE names
      /\ label' = IF task.new THEN [label EXCEPT ![h] = 0] ELSE label
      /\ mode' = "idle" /\ task' = NoTask
      /\ UNCHANGED <<now, byExpiry, client, out>>
  BY DEF PushFails, Made
<1>2. h \in LiveNames /\ h \in Places /\ LiveNames \subseteq Places /\ LiveAddrs \subseteq Places
  BY <1>0 DEF PushLinked, CacheTypes, LiveNames, ToSet, LiveAddrs
<1>3. Made \subseteq AddrsOf(h) /\ (task.new => AddrsOf(h) = Made) /\ task.new \in BOOLEAN
  BY <1>0 DEF PushLinked, CacheTypes
<1>4. ips[h] \in Seq(Places) /\ IsInjective(ips[h]) /\ ToSet(ips[h]) = AddrsOf(h)
  BY <1>0, <1>2 DEF CacheTypes, NamesLinked
<1>5. rest \in Seq(Places) /\ IsInjective(rest) /\ ToSet(rest) = AddrsOf(h) \ Made
  BY <1>0, <1>4, DropMadeExact
<1> HIDE DEF h, rest
<1>6. /\ RemoveFirst(names, h) \in Seq(Places) /\ IsInjective(RemoveFirst(names, h))
      /\ ToSet(RemoveFirst(names, h)) = LiveNames \ {h} /\ names \in Seq(Places) /\ IsInjective(names)
  <2>1. names \in Seq(Places) /\ IsInjective(names)
    BY <1>0 DEF CacheTypes, NamesLinked
  <2> QED
    BY <2>1, RemoveOnce DEF LiveNames
<1>7. \A b \in Places : addr'[b] = IF b \in Made THEN NoAddr ELSE addr[b]
  BY <1>1
<1>8. LiveAddrs' = LiveAddrs \ Made /\ LiveNames' = IF task.new THEN LiveNames \ {h} ELSE LiveNames
  BY <1>1, <1>6, <1>7 DEF LiveAddrs, LiveNames
<1>9. \A m : AddrsOf(m)' = AddrsOf(m) \ Made
  BY <1>7, <1>8 DEF AddrsOf, LiveAddrs
<1>10. Made' = {} /\ IsInjective(task.made)'
  BY <1>1 DEF Made, NoTask, ToSet, IsInjective
<1>11. \A m \in Places : /\ ips'[m] = IF m = h THEN rest ELSE ips[m]
                         /\ ~task.new \/ m # h => label'[m] = label[m]
  BY <1>0, <1>1 DEF CacheTypes
<1>12. CacheTypes'
  <2>1. NoAddr \in AddrHeader
    BY DEF NoAddr, AddrHeader
  <2>2. NoTask \in [name : Nat, header : Nat, new : BOOLEAN, left : SUBSET Group, made : Seq(Places)]
    BY DEF NoTask
  <2>3. addr' \in [Places -> AddrHeader] /\ ips' \in [Places -> Seq(Places)]
    BY <1>0, <1>1, <1>5, <2>1 DEF CacheTypes
  <2>4. label' \in [Places -> Nat] /\ names' \in Seq(Places)
    BY <1>0, <1>1, <1>6 DEF CacheTypes
  <2> QED
    BY <1>0, <1>1, <2>2, <2>3, <2>4 DEF CacheTypes, CacheTypeOK
<1>13. NamesLinked'
  <2>1. IsInjective(names')
    BY <1>1, <1>6
  <2>2. LiveNames' \cap LiveAddrs' = {}
    BY <1>0, <1>8 DEF NamesLinked
  <2>3. ASSUME NEW m \in LiveNames' PROVE label'[m] \in Stored
    <3>1. m \in LiveNames /\ (~task.new \/ m # h)
      BY <1>8
    <3> QED
      BY <1>0, <1>2, <1>11, <3>1 DEF NamesLinked
  <2>4. ASSUME NEW b \in LiveAddrs' PROVE addr'[b].parent \in LiveNames'
    <3>1. b \in LiveAddrs /\ b \notin Made /\ addr'[b] = addr[b] /\ addr[b].parent \in LiveNames
      BY <1>0, <1>2, <1>7, <1>8 DEF NamesLinked
    <3>2. task.new => addr[b].parent # h
      BY <1>3, <3>1 DEF AddrsOf
    <3> QED
      BY <1>8, <3>1, <3>2
  <2>5. ASSUME NEW m \in LiveNames' PROVE IsInjective(ips'[m]) /\ ToSet(ips'[m]) = AddrsOf(m)'
    <3>1. m \in LiveNames /\ m \in Places
      BY <1>2, <1>8
    <3>2. CASE m = h
      BY <1>5, <1>9, <1>11, <3>1, <3>2
    <3>3. CASE m # h
      <4>1. AddrsOf(m) \ Made = AddrsOf(m)
        BY <1>3, <3>3 DEF AddrsOf
      <4> QED
        BY <1>0, <1>9, <1>11, <3>1, <3>3, <4>1 DEF NamesLinked
    <3> QED
      BY <3>2, <3>3
  <2> QED
    BY <2>1, <2>2, <2>3, <2>4, <2>5 DEF NamesLinked
<1>14. ExpiryLinked'
  <2>1. byExpiry' = byExpiry /\ IsInjective(byExpiry) /\ ToSet(byExpiry) = LiveAddrs \ Made /\ InOrder(byExpiry)
    BY <1>0, <1>1 DEF ExpiryLinked
  <2>2. ToSet(byExpiry') = LiveAddrs' \ Made'
    BY <1>8, <1>10, <2>1
  <2>3. \A i \in DOMAIN byExpiry : addr'[byExpiry[i]] = addr[byExpiry[i]]
    <3>1. \A i \in DOMAIN byExpiry : byExpiry[i] \in ToSet(byExpiry)
      BY DEF ToSet
    <3> QED
      BY <1>2, <1>7, <2>1, <3>1
  <2>4. InOrder(byExpiry)'
    BY <2>1, <2>3 DEF InOrder
  <2> QED
    BY <2>1, <2>2, <2>4 DEF ExpiryLinked
<1>15. PushLinked'
  BY <1>1, <1>10 DEF PushLinked
<1>16. ClientsAsk'
  BY <1>0, <1>1 DEF ClientsAsk
<1> QED
  BY <1>12, <1>13, <1>14, <1>15, <1>16 DEF CacheInv

(* A push that succeeds moves its headers to the tree of expiry times. *)
LEMMA PushDoneStep ==
  ASSUME CacheInv, PushDone
  PROVE  CacheInv'
<1>0. CacheTypes /\ NamesLinked /\ ExpiryLinked /\ PushLinked /\ ClientsAsk /\ mode = "pushing"
  BY DEF CacheInv, PushDone
<1>1. /\ byExpiry' = Merged /\ mode' = "idle" /\ task' = NoTask
      /\ UNCHANGED <<now, names, label, ips, addr, client, out>>
  BY DEF PushDone
<1>2. /\ IsInjective(byExpiry) /\ InOrder(byExpiry) /\ IsInjective(task.made)
      /\ ToSet(byExpiry) = LiveAddrs \ Made /\ Made \subseteq LiveAddrs
  BY <1>0 DEF ExpiryLinked, PushLinked, AddrsOf
<1>3. /\ Merged \in Seq(Places) /\ IsInjective(Merged) /\ InOrder(Merged)
      /\ ToSet(Merged) = ToSet(byExpiry) \cup Made
  BY <1>0, <1>2, MergedExact
<1>4. /\ LiveNames' = LiveNames /\ LiveAddrs' = LiveAddrs /\ Made' = {} /\ IsInjective(task.made)'
      /\ \A n : AddrsOf(n)' = AddrsOf(n)
  BY <1>1 DEF LiveNames, LiveAddrs, Made, AddrsOf, NoTask, ToSet, IsInjective
<1>5. CacheTypes'
  <2>1. NoTask \in [name : Nat, header : Nat, new : BOOLEAN, left : SUBSET Group, made : Seq(Places)]
    BY DEF NoTask
  <2> QED
    BY <1>0, <1>1, <1>3, <2>1 DEF CacheTypes, CacheTypeOK
<1>6. NamesLinked'
  BY <1>0, <1>1, <1>4 DEF NamesLinked
<1>7. ExpiryLinked'
  <2>1. ToSet(byExpiry') = LiveAddrs' \ Made' /\ IsInjective(byExpiry')
    BY <1>1, <1>2, <1>3, <1>4
  <2>2. InOrder(byExpiry)'
    BY <1>1, <1>3 DEF InOrder
  <2> QED
    BY <2>1, <2>2 DEF ExpiryLinked
<1>8. PushLinked'
  BY <1>1, <1>4 DEF PushLinked
<1> QED
  BY <1>0, <1>1, <1>5, <1>6, <1>7, <1>8 DEF CacheInv, ClientsAsk

(* Whatever clients do, in any order, and wherever memory ends. *)
LEMMA CacheNextStep ==
  ASSUME CacheInv, [CacheNext]_cacheVars
  PROVE  CacheInv'
<1>1. CASE UNCHANGED cacheVars
  <2>1. Untouched /\ mode' = mode /\ out' \in [Clients -> Seq(Entry)] /\ CacheTypeOK' /\ ClientsAsk'
    BY <1>1 DEF cacheVars, Untouched, CacheInv, CacheTypes, CacheTypeOK, ClientsAsk
  <2> QED
    BY <2>1, UntouchedStep
<1>2. CASE CacheNext
  BY <1>2, PruneOneStep, PruneEndsStep, PushGroupStep, PushFailsStep, PushDoneStep, TickStep, DestroyCacheStep,
     ResolveStep, HostsHitStep, PullHitStep, PullMissStep, PushNameStep, AskFailsStep DEF CacheNext
<1> QED
  BY <1>1, <1>2

LEMMA CacheInvImplies ==
  ASSUME CacheInv
  PROVE  IndexesAgree
<1>1. mode # "pushing" => Made = {}
  BY DEF CacheInv, PushLinked, Made, NoTask, ToSet
<1> QED
  BY <1>1 DEF CacheInv, CacheTypes, NamesLinked, ExpiryLinked, InOrder, AddrsOf, IndexesAgree

(* The two indexes of the memory cache agree between operations, and every  *)
(* header in use belongs to one: for any names that clients ask for, in any *)
(* case, any number of clients and headers, and any failed allocation.      *)
THEOREM CacheIndexes == CacheSpec => []IndexesAgree
<1>1. CacheInit => CacheInv
  BY CacheInitInv
<1>2. CacheInv /\ [CacheNext]_cacheVars => CacheInv'
  BY CacheNextStep
<1>3. CacheInv => IndexesAgree
  BY CacheInvImplies
<1> QED
  BY <1>1, <1>2, <1>3, PTL DEF CacheSpec

-----------------------------------------------------------------------------
(* Where clients ask in lower case, names are found.                        *)

(* Names stay in order when one of them goes. *)
LEMMA OrderedWithout ==
  ASSUME CacheTypes, NamesOrdered, NEW n, names' = RemoveFirst(names, n),
         \A m \in LiveNames' : label'[m] = label[m]
  PROVE  NamesOrdered'
<1> SUFFICES ASSUME NEW i \in DOMAIN names', NEW j \in DOMAIN names', i < j
             PROVE  label'[names'[i]] < label'[names'[j]]
  BY DEF NamesOrdered
<1>1. names \in Seq(Places)
  BY DEF CacheTypes
<1>2. PICK k, l \in DOMAIN names : k < l /\ names[k] = names'[i] /\ names[l] = names'[j]
  BY <1>1, RemoveFirstOrder
<1>3. label'[names'[i]] = label[names'[i]] /\ label'[names'[j]] = label[names'[j]]
  BY DEF LiveNames, ToSet
<1> QED
  BY <1>2, <1>3 DEF NamesOrdered

(* The place of a name that is looked for: behind the smaller ones. *)
LEMMA LowerBoundExact ==
  ASSUME CacheTypes, NamesOrdered, NEW x \in Nat
  PROVE  /\ LowerBound(x) \in 0 .. Len(names)
         /\ \A k \in 1 .. Len(names) : label[names[k]] < x <=> k <= LowerBound(x)
<1> DEFINE n == Len(names)
           K == [k \in 1 .. n |-> label[names[k]]]
           y == x - 1
<1>1. n \in Nat /\ DOMAIN names = 1 .. n /\ \A k \in 1 .. n : label[names[k]] \in Nat
  BY DEF CacheTypes
<1>2. K \in [1 .. n -> Int] /\ y \in Int /\ \A i, j \in 1 .. n : i < j => K[i] <= K[j]
  BY <1>1 DEF NamesOrdered
<1>3. {k \in DOMAIN names : label[names[k]] < x} = {k \in 1 .. n : K[k] <= y}
  BY <1>1
<1>4. \A k \in 1 .. n : label[names[k]] < x <=> K[k] <= y
  BY <1>1
<1> HIDE DEF n, K, y
<1>5. /\ Cardinality({k \in 1 .. n : K[k] <= y}) \in 0 .. n
      /\ \A k \in 1 .. n : K[k] <= y <=> k <= Cardinality({i \in 1 .. n : K[i] <= y})
  BY <1>1, <1>2, Boundary
<1> QED
  BY <1>3, <1>4, <1>5 DEF LowerBound, n

(* Names stay in order when one comes to its place. *)
LEMMA OrderedWith ==
  ASSUME CacheTypes, NamesOrdered, NEW x \in Nat, NEW n \in Places, n \notin LiveNames,
         ~(LowerBound(x) + 1 \in DOMAIN names /\ label[names[LowerBound(x) + 1]] = x),
         names' = InsertAt(names, LowerBound(x) + 1, n), label' = [label EXCEPT ![n] = x]
  PROVE  NamesOrdered'
<1> DEFINE pre == LowerBound(x) + 1
           N == Len(names)
<1>1. N \in Nat /\ DOMAIN names = 1 .. N /\ \A k \in 1 .. N : names[k] \in Places /\ label[names[k]] \in Nat
  BY DEF CacheTypes
<1>2. pre \in 1 .. N + 1 /\ \A k \in 1 .. N : label[names[k]] < x <=> k < pre
  <2> DEFINE lb == LowerBound(x)
  <2>1. lb \in 0 .. Len(names) /\ \A k \in 1 .. Len(names) : label[names[k]] < x <=> k <= lb
    BY LowerBoundExact
  <2> HIDE DEF lb
  <2>2. lb + 1 \in 1 .. N + 1 /\ \A k \in 1 .. N : label[names[k]] < x <=> k < lb + 1
    BY <1>1, <2>1
  <2> QED
    BY <2>2 DEF lb
<1>3. ~(pre \in 1 .. N /\ label[names[pre]] = x) /\ names' = InsertAt(names, pre, n)
  BY <1>1
<1> HIDE DEF pre
<1>4. names' \in Seq(Places) /\ HasAt(names', names, pre, n)
  BY <1>2, <1>3, InsertAtIndex DEF CacheTypes
<1>5. DOMAIN names' = 1 .. N + 1
  BY <1>1, <1>4 DEF HasAt
<1>6. \A k \in 1 .. N : label'[names[k]] = label[names[k]] /\ names[k] # n
  BY <1>1 DEF CacheTypes, LiveNames, ToSet
<1>7. label'[n] = x
  BY DEF CacheTypes
<1>8. \A i, j \in 1 .. N : i < j => label[names[i]] < label[names[j]]
  BY <1>1 DEF NamesOrdered
<1>9. ASSUME NEW k \in 1 .. N, ~(k < pre) PROVE x < label[names[k]]
  <2>1. ~(label[names[k]] < x) /\ label[names[k]] \in Nat
    BY <1>1, <1>2, <1>9
  <2>2. label[names[k]] # x
    <3>1. CASE k = pre
      BY <1>3, <3>1
    <3>2. CASE pre < k
      <4>1. pre \in 1 .. N /\ label[names[pre]] < label[names[k]] /\ label[names[pre]] \in Nat /\ ~(label[names[pre]] < x)
        BY <1>1, <1>2, <1>8, <3>2
      <4> QED
        BY <2>1, <4>1
    <3> QED
      BY <1>2, <1>9, <3>1, <3>2
  <2> QED
    BY <2>1, <2>2
<1>10. ASSUME NEW j \in 1 .. N + 1
       PROVE  /\ j < pre => j \in 1 .. N /\ label'[names'[j]] = label[names[j]] /\ label[names[j]] < x
              /\ j = pre => label'[names'[j]] = x
              /\ j > pre => j - 1 \in 1 .. N /\ label'[names'[j]] = label[names[j - 1]] /\ x < label[names[j - 1]]
  <2>1. CASE j < pre
    <3>1. j \in 1 .. N
      BY <1>1, <1>2, <2>1
    <3>2. names'[j] = names[j]
      BY <1>4, <2>1 DEF HasAt
    <3> QED
      BY <1>2, <1>6, <2>1, <3>1, <3>2
  <2>2. CASE j = pre
    <3>1. names'[j] = n
      BY <1>2, <1>4, <2>2 DEF HasAt
    <3> QED
      BY <1>2, <1>7, <2>2, <3>1
  <2>3. CASE j > pre
    <3>1. j - 1 \in 1 .. N /\ ~(j - 1 < pre) /\ ~(j < pre) /\ j # pre
      BY <1>1, <1>2, <2>3
    <3>2. names'[j] = names[j - 1]
      BY <1>4, <3>1 DEF HasAt
    <3> QED
      BY <1>6, <1>9, <3>1, <3>2
  <2> QED
    BY <1>2, <2>1, <2>2, <2>3
<1> SUFFICES ASSUME NEW i \in 1 .. N + 1, NEW j \in 1 .. N + 1, i < j
             PROVE  label'[names'[i]] < label'[names'[j]]
  BY <1>5 DEF NamesOrdered
<1>11. CASE i < pre /\ j < pre
  BY <1>8, <1>10, <1>11
<1>12. CASE i < pre /\ ~(j < pre)
  <2>1. label[names[i]] \in Nat /\ label'[names'[i]] = label[names[i]] /\ label[names[i]] < x
    BY <1>1, <1>10, <1>12
  <2>2. CASE j = pre
    BY <1>10, <2>1, <2>2
  <2>3. CASE j > pre
    <3>1. j - 1 \in 1 .. N /\ label'[names'[j]] = label[names[j - 1]] /\ x < label[names[j - 1]]
      BY <1>10, <2>3
    <3>2. label[names[j - 1]] \in Nat
      BY <1>1, <3>1
    <3> QED
      BY <2>1, <3>1, <3>2
  <2> QED
    BY <1>2, <1>12, <2>2, <2>3
<1>13. CASE i = pre
  BY <1>2, <1>10, <1>13
<1>14. CASE i > pre
  <2>1. j > pre /\ i - 1 < j - 1
    BY <1>2, <1>14
  <2>2. i - 1 \in 1 .. N /\ j - 1 \in 1 .. N /\ label'[names'[i]] = label[names[i - 1]]
        /\ label'[names'[j]] = label[names[j - 1]]
    BY <1>10, <1>14, <2>1
  <2> QED
    BY <1>8, <2>1, <2>2
<1> QED
  BY <1>2, <1>11, <1>12, <1>13, <1>14

(* A lookup comes to all headers of its name. *)
LEMMA FoundExact ==
  ASSUME FactsInv, NEW raw \in Stored
  PROVE  ToSet(Found(raw)) = {a \in LiveAddrs : label[addr[a].parent] = raw}
<1> DEFINE pre == LowerBound(raw) + 1
           N == Len(names)
<1>0. CacheTypes /\ NamesLinked /\ NamesOrdered /\ raw \in Nat /\ Lower(raw) = raw
  <2>1. raw \in 1 .. 2 * Letters /\ raw \in Nat
    BY LettersNat DEF Stored
  <2> QED
    BY <2>1, LowerStored DEF FactsInv, CacheInv
<1>1. N \in Nat /\ DOMAIN names = 1 .. N /\ \A k \in 1 .. N : label[names[k]] \in Nat
  BY <1>0 DEF CacheTypes
<1>2. pre \in 1 .. N + 1 /\ \A k \in 1 .. N : label[names[k]] < raw <=> k < pre
  <2> DEFINE lb == LowerBound(raw)
  <2>1. lb \in 0 .. Len(names) /\ \A k \in 1 .. Len(names) : label[names[k]] < raw <=> k <= lb
    BY <1>0, LowerBoundExact
  <2> HIDE DEF lb
  <2>2. lb + 1 \in 1 .. N + 1 /\ \A k \in 1 .. N : label[names[k]] < raw <=> k < lb + 1
    BY <1>1, <2>1
  <2> QED
    BY <2>2 DEF lb
<1>3. Found(raw) = IF pre \in 1 .. N /\ label[names[pre]] = raw THEN ips[names[pre]] ELSE <<>>
  BY <1>0, <1>1 DEF Found
<1> HIDE DEF pre
<1>4. ASSUME NEW k \in 1 .. N, label[names[k]] = raw PROVE k = pre
  <2>1. ~(k < pre)
    BY <1>0, <1>2, <1>4
  <2>2. ~(pre < k)
    <3> SUFFICES ASSUME pre < k PROVE FALSE
      OBVIOUS
    <3>1. pre \in 1 .. N /\ label[names[pre]] < raw
      BY <1>0, <1>1, <1>2, <1>4 DEF NamesOrdered
    <3> QED
      BY <1>2, <3>1
  <2> QED
    BY <1>2, <2>1, <2>2
<1>5. CASE pre \in 1 .. N /\ label[names[pre]] = raw
  <2>1. names[pre] \in LiveNames /\ ToSet(Found(raw)) = AddrsOf(names[pre])
    BY <1>0, <1>1, <1>3, <1>5 DEF NamesLinked, LiveNames, ToSet
  <2>2. \A a \in LiveAddrs : label[addr[a].parent] = raw => addr[a].parent = names[pre]
    <3> SUFFICES ASSUME NEW a \in LiveAddrs, label[addr[a].parent] = raw PROVE addr[a].parent = names[pre]
      OBVIOUS
    <3>1. PICK k \in 1 .. N : names[k] = addr[a].parent
      BY <1>0, <1>1 DEF NamesLinked, LiveNames, ToSet
    <3> QED
      BY <1>4, <3>1
  <2> QED
    BY <1>5, <2>1, <2>2 DEF AddrsOf
<1>6. CASE ~(pre \in 1 .. N /\ label[names[pre]] = raw)
  <2>1. ToSet(Found(raw)) = {}
    BY <1>3, <1>6 DEF ToSet
  <2>2. ASSUME NEW a \in LiveAddrs, label[addr[a].parent] = raw PROVE FALSE
    <3>1. PICK k \in 1 .. N : names[k] = addr[a].parent
      BY <1>0, <1>1 DEF NamesLinked, LiveNames, ToSet
    <3> QED
      BY <1>4, <1>6, <2>2, <3>1
  <2> QED
    BY <2>1, <2>2
<1> QED
  BY <1>5, <1>6

(* The headers that lookups take, and the facts that a header stands for. *)
Visible == {a \in LiveAddrs \ Made : ~Expired(a) /\ label[addr[a].parent] \in RawNames}
HeaderFacts(a) == {<<label[addr[a].parent], x, addr[a].expires>> : x \in addr[a].addrs}
VisibleFacts == UNION {HeaderFacts(a) : a \in Visible}

(* Clients ask for names as the cache stores them. *)
AskedLower == RawNames \subseteq Stored

LEMMA FactsSeenExact ==
  ASSUME AskedLower
  PROVE  FactsInv => FactsSeen = VisibleFacts
<1> SUFFICES ASSUME FactsInv PROVE FactsSeen = VisibleFacts
  OBVIOUS
<1>1. \A raw \in RawNames : raw \in Stored /\ Lower(raw) = raw
  BY LettersNat, LowerStored DEF AskedLower
<1>2. \A raw \in RawNames : Reached(raw) \ ToSet(task.made) = {a \in Visible : label[addr[a].parent] = raw}
  <2> SUFFICES ASSUME NEW raw \in RawNames
               PROVE  Reached(raw) \ ToSet(task.made) = {a \in Visible : label[addr[a].parent] = raw}
    OBVIOUS
  <2>1. ToSet(Found(raw)) = {a \in LiveAddrs : label[addr[a].parent] = raw}
    BY <1>1, FoundExact
  <2> QED
    BY <2>1 DEF Reached, Visible, Made
<1>3. ASSUME NEW f \in FactsSeen PROVE f \in VisibleFacts
  <2>1. PICK raw \in RawNames : f \in FactsOf(raw, Reached(raw) \ ToSet(task.made))
    BY <1>3 DEF FactsSeen
  <2>2. PICK a \in Reached(raw) \ ToSet(task.made) : f \in {<<Lower(raw), x, addr[a].expires>> : x \in addr[a].addrs}
    BY <2>1 DEF FactsOf
  <2>3. a \in Visible /\ label[addr[a].parent] = Lower(raw)
    BY <1>1, <1>2, <2>2
  <2>4. f \in HeaderFacts(a)
    BY <2>2, <2>3 DEF HeaderFacts
  <2> QED
    BY <2>3, <2>4 DEF VisibleFacts
<1>4. ASSUME NEW f \in VisibleFacts PROVE f \in FactsSeen
  <2>1. PICK a \in Visible : f \in HeaderFacts(a)
    BY <1>4 DEF VisibleFacts
  <2> DEFINE raw == label[addr[a].parent]
  <2>2. raw \in RawNames
    BY <2>1 DEF Visible
  <2> HIDE DEF raw
  <2>3. a \in Reached(raw) \ ToSet(task.made) /\ Lower(raw) = raw
    BY <1>1, <1>2, <2>2 DEF raw
  <2>4. f \in {<<Lower(raw), x, addr[a].expires>> : x \in addr[a].addrs}
    BY <2>1, <2>3 DEF HeaderFacts, raw
  <2>5. f \in FactsOf(raw, Reached(raw) \ ToSet(task.made))
    BY <2>3, <2>4 DEF FactsOf
  <2> QED
    BY <2>2, <2>5 DEF FactsSeen
<1> QED
  BY <1>3, <1>4

LEMMA FactsSeenNext ==
  ASSUME AskedLower
  PROVE  FactsInv' => FactsSeen' = VisibleFacts'
<1> DEFINE Exact == FactsSeen = VisibleFacts
<1>1. FactsInv => Exact
  BY FactsSeenExact
<1>2. FactsInv' => Exact'
  <2> HIDE DEF Exact
  <2> QED
    BY <1>1, PTL
<1> QED
  BY <1>2

(* A step that leaves alone what lookups take leaves the facts alone. *)
LEMMA SameFacts ==
  ASSUME AskedLower, FactsInv, FactsInv', Visible' = Visible,
         \A a \in Visible : addr'[a] = addr[a] /\ label'[addr[a].parent] = label[addr[a].parent]
  PROVE  FactsSeen' = FactsSeen
<1>1. FactsSeen = VisibleFacts /\ FactsSeen' = VisibleFacts'
  BY FactsSeenExact, FactsSeenNext
<1>2. \A a \in Visible : HeaderFacts(a)' = HeaderFacts(a)
  BY DEF HeaderFacts
<1>3. VisibleFacts' = UNION {HeaderFacts(a)' : a \in Visible}
  BY DEF VisibleFacts
<1> QED
  BY <1>1, <1>2, <1>3 DEF VisibleFacts

(* Between pushes nothing is due. *)
LEMMA NothingDue ==
  ASSUME task = NoTask
  PROVE  FactsDue = {} /\ Made = {}
BY DEF FactsDue, FactsLeft, FactsOf, NoTask, ToSet, Made

(* Nor after a push. *)
LEMMA NothingDueNext ==
  ASSUME task' = NoTask
  PROVE  FactsDue' = {} /\ Made' = {}
BY DEF FactsDue, FactsLeft, FactsOf, NoTask, ToSet, Made

-----------------------------------------------------------------------------
(* Every action does to the facts what the promise allows.                  *)

LEMMA QuietFacts ==
  ASSUME FactsInv, Untouched, UNCHANGED now, CacheInv', mode = "pushing" <=> mode' = "pushing"
  PROVE  FactsInv' /\ UNCHANGED <<now, FactsSeen, FactsDue>>
<1>1. FactsInv'
  BY DEF FactsInv, Untouched, NamesOrdered, PushFresh, Made
<1>2. \A raw : Found(raw)' = Found(raw)
  BY DEF Untouched, Found, LowerBound
<1>3. \A raw : Reached(raw)' = Reached(raw)
  BY <1>2 DEF Untouched, Reached, Expired
<1>4. FactsSeen' = FactsSeen
  BY <1>3 DEF FactsSeen, FactsOf, Untouched
<1>5. FactsDue' = FactsDue
  BY DEF FactsDue, FactsLeft, FactsOf, Untouched
<1> QED
  BY <1>1, <1>4, <1>5

LEMMA PruneOneFacts ==
  ASSUME AskedLower, FactsInv, PruneOne
  PROVE  FactsInv' /\ UNCHANGED <<now, FactsSeen, FactsDue>>
<1> DEFINE a == Head(byExpiry)
           n == addr[a].parent
           rest == RemoveFirst(ips[n], a)
<1>0. /\ CacheInv /\ CacheTypes /\ NamesLinked /\ ExpiryLinked /\ NamesOrdered
      /\ task = NoTask /\ mode = "pruning" /\ CacheInv'
  BY PruneOneStep DEF FactsInv, CacheInv, PushLinked, PruneOne, PruneNext
<1>1. /\ addr' = [addr EXCEPT ![a] = NoAddr]
      /\ names' = IF rest = <<>> THEN RemoveFirst(names, n) ELSE names
      /\ label' = IF rest = <<>> THEN [label EXCEPT ![n] = 0] ELSE label
      /\ UNCHANGED <<now, mode, task, client, out>>
      /\ Expired(a) /\ byExpiry # <<>>
  BY DEF PruneOne, PruneNext, LastOf
<1>2. Made = {} /\ Made' = {} /\ FactsDue = {} /\ FactsDue' = {}
  BY <1>0, <1>1, NothingDue, NothingDueNext
<1>3. a \in LiveAddrs /\ ToSet(byExpiry) = LiveAddrs
  <2>1. byExpiry \in Seq(Places) /\ IsInjective(byExpiry) /\ ToSet(byExpiry) = LiveAddrs
    BY <1>0, <1>2 DEF CacheTypes, ExpiryLinked
  <2> QED
    BY <1>1, <2>1, TailOnce
<1>4. \A b \in Places : b # a => addr'[b] = addr[b]
  BY <1>0, <1>1 DEF CacheTypes
<1>5. LiveAddrs' = LiveAddrs \ {a} /\ LiveAddrs \subseteq Places
  BY <1>0, <1>1 DEF CacheTypes, LiveAddrs
<1>6. \A m \in Places : m \in LiveNames' => label'[m] = label[m]
  <2>1. rest = <<>> => n \notin LiveNames'
    <3>1. names \in Seq(Places) /\ IsInjective(names)
      BY <1>0 DEF CacheTypes, NamesLinked
    <3> HIDE DEF n
    <3>2. ToSet(RemoveFirst(names, n)) = ToSet(names) \ {n}
      BY <3>1, RemoveOnce
    <3> QED
      BY <1>1, <3>2 DEF LiveNames
  <2> HIDE DEF n, rest
  <2> QED
    BY <1>0, <1>1, <2>1 DEF CacheTypes
<1>7. LiveNames' \subseteq Places /\ \A b \in LiveAddrs' : addr'[b].parent \in LiveNames'
  BY <1>0, SMTT(30) DEF CacheInv, CacheTypes, NamesLinked, LiveNames, ToSet
<1>8. \A b \in LiveAddrs' : addr'[b] = addr[b] /\ label'[addr[b].parent] = label[addr[b].parent]
  BY <1>4, <1>5, <1>6, <1>7
<1>9. FactsInv'
  <2>1. NamesOrdered'
    <3>1. CASE rest = <<>>
      <4>1. names' = RemoveFirst(names, n) /\ \A m \in LiveNames' : label'[m] = label[m]
        BY <1>1, <1>6, <1>7, <3>1
      <4> HIDE DEF n
      <4> QED
        BY <1>0, <4>1, OrderedWithout
    <3>2. CASE rest # <<>>
      BY <1>0, <1>1, <3>2 DEF NamesOrdered
    <3> QED
      BY <3>1, <3>2
  <2>2. PushFresh'
    BY <1>0, <1>1, <1>2 DEF PushFresh, NoTask
  <2> QED
    BY <1>0, <2>1, <2>2 DEF FactsInv
<1>10. Visible' = Visible
  <2> HIDE DEF a
  <2>1. \A b : b \in Visible <=> b \in LiveAddrs' /\ ~Expired(b) /\ label[addr[b].parent] \in RawNames
    BY <1>1, <1>2, <1>5 DEF Visible
  <2>2. \A b \in LiveAddrs' : Expired(b)' = Expired(b)
    BY <1>1, <1>8 DEF Expired
  <2>3. \A b : b \in Visible' <=> b \in LiveAddrs' /\ ~Expired(b)' /\ label'[addr'[b].parent] \in RawNames
    BY <1>2 DEF Visible
  <2> QED
    BY <1>8, <2>1, <2>2, <2>3
<1>11. Visible \subseteq LiveAddrs'
  BY <1>10 DEF Visible
<1>12. FactsSeen' = FactsSeen
  <2> HIDE DEF a
  <2> QED
    BY <1>8, <1>9, <1>10, <1>11, SameFacts
<1> QED
  BY <1>1, <1>2, <1>9, <1>12

LEMMA PushNameFacts ==
  ASSUME AskedLower, FactsInv, NEW c \in Clients, NEW answer \in Batches, PushName(c, answer)
  PROVE  FactsInv' /\ Seen!Arrive
<1> DEFINE raw == client[c].name
           buffer == Received(c, answer)
           groups == Groups(ToSet(buffer))
           k == LowerBound(raw) + 1
           known == k \in DOMAIN names /\ label[names[k]] = raw
           n == IF known THEN names[k] ELSE Min(FreeIds)
<1>0. /\ CacheInv /\ CacheTypes /\ NamesLinked /\ NamesOrdered /\ task = NoTask /\ mode = "idle"
      /\ CacheInv' /\ LiveNames \subseteq Places
  <2>1. CacheInv /\ NamesOrdered /\ mode = "idle"
    BY DEF FactsInv, PushName
  <2>2. CacheInv'
    BY <2>1, PushNameStep
  <2>3. CacheTypes /\ NamesLinked /\ task = NoTask
    BY <2>1 DEF CacheInv, PushLinked
  <2>4. LiveNames \subseteq Places
    BY <2>3, SMTT(30) DEF CacheTypes, LiveNames, ToSet
  <2> QED
    BY <2>1, <2>2, <2>3, <2>4
<1>1. /\ known \/ FreeIds # {}
      /\ task' = [name |-> raw, header |-> n, new |-> ~known, left |-> groups, made |-> <<>>]
      /\ mode' = "pushing"
      /\ UNCHANGED <<now, addr, byExpiry>>
      /\ known => UNCHANGED <<names, label, ips>>
      /\ ~known => names' = InsertAt(names, k, n) /\ label' = [label EXCEPT ![n] = StoredName(raw)]
  BY DEF PushName
<1>2. raw \in RawNames /\ raw \in Nat /\ StoredName(raw) = raw /\ Lower(raw) = raw
  <2>1. raw \in RawNames
    BY DEF FactsInv, CacheInv, ClientsAsk, PushName
  <2>2. RawNames \subseteq 1 .. 2 * Letters /\ 1 .. 2 * Letters \subseteq Nat /\ RawNames \subseteq Stored
    BY LettersNat DEF AskedLower
  <2> HIDE DEF raw
  <2> QED
    BY <2>1, <2>2, LowerStored DEF StoredName
<1>3. \A g \in groups : g.expires > now
  <2>1. buffer \in Seq(Entry)
    BY <1>0, <1>2, ReceivedType
  <2>2. ToSet(buffer) \subseteq Entry
    BY <2>1 DEF ToSet
  <2> QED
    BY <1>0, <2>2, GroupsType
<1>4. ~known => n \in Places /\ n \notin LiveNames
  BY <1>0, <1>1, FreeId
<1>5. known => label[n] = raw
  OBVIOUS
<1>F. known <=> (LowerBound(raw) + 1 \in DOMAIN names /\ label[names[LowerBound(raw) + 1]] = raw)
  OBVIOUS
<1>K. ~known => names' = InsertAt(names, LowerBound(raw) + 1, n) /\ label' = [label EXCEPT ![n] = raw]
  BY <1>1, <1>2
<1> HIDE DEF known, n, raw, groups, k
<1>6. NamesOrdered'
  <2>1. CASE known
    BY <1>0, <1>1, <2>1 DEF NamesOrdered
  <2>2. CASE ~known
    BY <1>0, <1>2, <1>4, <1>F, <1>K, <2>2, OrderedWith
  <2> QED
    BY <2>1, <2>2
<1>7. label'[n] = raw
  BY <1>0, <1>1, <1>2, <1>4, <1>5 DEF CacheTypes
<1>8. Made = {} /\ Made' = {} /\ task'.left = groups /\ task'.name = raw /\ task'.header = n /\ FactsDue = {}
  <2>1. Made = {} /\ FactsDue = {}
    BY <1>0, NothingDue
  <2>2. task'.left = groups /\ task'.name = raw /\ task'.header = n /\ task'.made = <<>>
    BY <1>1
  <2> QED
    BY <2>1, <2>2 DEF Made, ToSet
<1>9. FactsInv'
  BY <1>0, <1>1, <1>2, <1>3, <1>6, <1>7, <1>8 DEF FactsInv, PushFresh
<1>10. \A m \in LiveNames : label'[m] = label[m]
  BY <1>0, <1>1, <1>4 DEF CacheTypes
<1>11. LiveAddrs' = LiveAddrs
  BY <1>1 DEF LiveAddrs
<1>12. \A a \in LiveAddrs : Expired(a)' = Expired(a) /\ addr'[a] = addr[a] /\ label'[addr[a].parent] = label[addr[a].parent]
  BY <1>0, <1>1, <1>10 DEF Expired, NamesLinked
<1>13. Visible' = Visible /\ Visible \subseteq LiveAddrs
  BY <1>8, <1>11, <1>12 DEF Visible
<1>14. FactsSeen' = FactsSeen
  BY <1>9, <1>12, <1>13, SameFacts
<1>15. ASSUME NEW f \in FactsDue' PROVE f[1] = raw /\ f[3] > now
  <2>1. f \in FactsLeft'
    BY <1>8, <1>15 DEF FactsDue, FactsOf, Made
  <2>2. PICK g \in groups : \E x \in g.addrs : f = <<Lower(raw), x, g.expires>>
    BY <1>8, <2>1 DEF FactsLeft
  <2> QED
    BY <1>2, <1>3, <2>2
<1>16. (\A f, g \in FactsDue' : f[1] = g[1]) /\ (\A f \in FactsDue' : f[3] > now)
  BY <1>15
<1> QED
  BY <1>1, <1>8, <1>9, <1>14, <1>16 DEF Seen!Arrive

LEMMA PushGroupFacts ==
  ASSUME AskedLower, FactsInv, PushGroup
  PROVE  FactsInv' /\ UNCHANGED <<now, FactsSeen, FactsDue>>
<1> DEFINE g == Earliest(task.left)
           a == Min(FreeIds)
           h == task.header
           head == [parent |-> h, expires |-> g.expires, addrs |-> g.addrs]
<1>0. /\ CacheInv /\ CacheTypes /\ NamesLinked /\ PushLinked /\ NamesOrdered /\ PushFresh /\ mode = "pushing" /\ CacheInv'
  BY PushGroupStep DEF FactsInv, CacheInv, PushGroup
<1>1. /\ task.left # {} /\ FreeIds # {}
      /\ addr' = [addr EXCEPT ![a] = head]
      /\ task' = [task EXCEPT !.left = task.left \ {g}, !.made = Append(task.made, a)]
      /\ UNCHANGED <<now, names, label, byExpiry, mode, client, out>>
  BY DEF PushGroup
<1>2. a \in Places /\ a \notin LiveAddrs /\ LiveAddrs \subseteq Places
  BY <1>0, <1>1, FreeId DEF LiveAddrs
<1>3. g \in task.left
  BY <1>0, <1>1, EarliestIn DEF CacheTypes
<1>4. head.expires = g.expires /\ head.addrs = g.addrs /\ head.parent = h /\ g.expires > now
  BY <1>0, <1>3 DEF PushFresh
<1> HIDE DEF g, a, head
<1>5. task'.left = task.left \ {g} /\ task'.made = Append(task.made, a) /\ task'.name = task.name /\ task'.header = h
  BY <1>0, <1>1 DEF CacheTypes
<1>6. Made' = Made \cup {a} /\ a \notin Made /\ Made \subseteq LiveAddrs
  <2>1. task.made \in Seq(Places) /\ IsInjective(task.made) /\ Made \subseteq LiveAddrs
    BY <1>0 DEF CacheTypes, PushLinked, AddrsOf
  <2>2. a \notin ToSet(task.made)
    BY <1>2, <2>1 DEF Made
  <2>3. ToSet(Append(task.made, a)) = ToSet(task.made) \cup {a}
    BY <1>2, <2>1, <2>2, AppendOnce
  <2> QED
    BY <1>5, <2>1, <2>2, <2>3 DEF Made
<1>7. /\ addr'[a] = head
      /\ \A b \in Places : b # a => addr'[b] = addr[b]
  BY <1>0, <1>1, <1>2 DEF CacheTypes
<1>8. FactsInv'
  <2>1. NamesOrdered'
    BY <1>0, <1>1 DEF NamesOrdered
  <2>2. PushFresh'
    BY <1>0, <1>1, <1>2, <1>4, <1>5, <1>6, <1>7 DEF PushFresh
  <2> QED
    BY <1>0, <2>1, <2>2 DEF FactsInv
<1>9. LiveAddrs' \ Made' = LiveAddrs \ Made
  BY <1>2, <1>6, <1>7 DEF LiveAddrs
<1>10. \A b \in LiveAddrs : b # a /\ addr'[b] = addr[b]
  BY <1>2, <1>7
<1>11. Visible' = Visible /\ Visible \subseteq LiveAddrs
  BY <1>1, <1>9, <1>10 DEF Visible, Expired
<1>12. FactsSeen' = FactsSeen
  <2>1. \A b \in Visible : addr'[b] = addr[b] /\ label'[addr[b].parent] = label[addr[b].parent]
    BY <1>1, <1>10, <1>11
  <2> QED
    BY <1>8, <1>11, <2>1, SameFacts
<1> DEFINE GF(k) == {<<Lower(task.name), x, k.expires>> : x \in k.addrs}
           AF(b) == {<<Lower(task.name), x, addr[b].expires>> : x \in addr[b].addrs}
           GFs == UNION {GF(k) : k \in task.left}
           AFs == UNION {AF(b) : b \in Made}
<1>13. FactsDue = GFs \cup AFs
  BY DEF FactsDue, FactsLeft, FactsOf, Made
<1>14. FactsDue' = GFs' \cup AFs'
  BY DEF FactsDue, FactsLeft, FactsOf, Made
<1>15. ASSUME NEW f PROVE f \in GFs' <=> \E k \in task.left : k # g /\ f \in GF(k)
  BY <1>5
<1>16. ASSUME NEW f PROVE f \in AFs' <=> (f \in AFs \/ f \in GF(g))
  BY <1>4, <1>5, <1>6, <1>7, <1>10
<1>17. GFs' \cup AFs' = GFs \cup AFs
  <2> HIDE DEF GF, AF, AFs
  <2>1. ASSUME NEW f PROVE f \in GFs <=> \E k \in task.left : f \in GF(k)
    OBVIOUS
  <2> HIDE DEF GFs
  <2> QED
    BY <1>3, <1>15, <1>16, <2>1
<1>18. FactsDue' = FactsDue
  BY <1>13, <1>14, <1>17
<1> QED
  BY <1>1, <1>8, <1>12, <1>18

LEMMA PushFailsFacts ==
  ASSUME AskedLower, FactsInv, PushFails
  PROVE  FactsInv' /\ Seen!Refuse
<1> DEFINE h == task.header
<1>0. /\ CacheInv /\ CacheTypes /\ NamesLinked /\ PushLinked /\ NamesOrdered /\ mode = "pushing" /\ CacheInv'
  BY PushFailsStep DEF FactsInv, CacheInv, PushFails
<1>1. /\ addr' = [a \in Places |-> IF a \in Made THEN NoAddr ELSE addr[a]]
      /\ names' = IF task.new THEN RemoveFirst(names, h) ELSE names
      /\ label' = IF task.new THEN [label EXCEPT ![h] = 0] ELSE label
      /\ mode' = "idle" /\ task' = NoTask /\ UNCHANGED now
  BY DEF PushFails, Made
<1>2. FactsDue' = {} /\ Made' = {}
  BY <1>1, NothingDueNext
<1>3. names \in Seq(Places) /\ IsInjective(names) /\ LiveNames \subseteq Places
  BY <1>0 DEF CacheTypes, NamesLinked, LiveNames, ToSet
<1> HIDE DEF h
<1>4. LiveNames' = IF task.new THEN LiveNames \ {h} ELSE LiveNames
  BY <1>1, <1>3, RemoveOnce DEF LiveNames
<1>5. LiveAddrs' = LiveAddrs \ Made /\ LiveAddrs \subseteq Places
  BY <1>1 DEF LiveAddrs
<1>6. \A m \in LiveNames' : label'[m] = label[m]
  BY <1>0, <1>1, <1>3, <1>4 DEF CacheTypes
<1>7. \A b \in LiveAddrs' : addr'[b] = addr[b] /\ addr'[b].parent \in LiveNames'
  BY <1>0, <1>1, <1>5 DEF CacheInv, NamesLinked
<1>8. NamesOrdered'
  <2>1. CASE task.new
    BY <1>0, <1>1, <1>6, <2>1, OrderedWithout
  <2>2. CASE ~task.new
    BY <1>0, <1>1, <2>2 DEF NamesOrdered
  <2> QED
    BY <2>1, <2>2
<1>9. FactsInv'
  BY <1>0, <1>1, <1>2, <1>8 DEF FactsInv, PushFresh, NoTask
<1>10. \A b \in LiveAddrs' : addr'[b] = addr[b] /\ label'[addr[b].parent] = label[addr[b].parent] /\ Expired(b)' = Expired(b)
  BY <1>1, <1>6, <1>7 DEF Expired
<1>11. Visible' = Visible /\ Visible \subseteq LiveAddrs'
  BY <1>2, <1>5, <1>10 DEF Visible
<1>12. FactsSeen' = FactsSeen
  BY <1>9, <1>10, <1>11, SameFacts
<1> QED
  BY <1>1, <1>2, <1>9, <1>12 DEF Seen!Refuse

LEMMA PushDoneFacts ==
  ASSUME AskedLower, FactsInv, PushDone
  PROVE  FactsInv' /\ Seen!Store
<1>0. /\ CacheInv /\ CacheTypes /\ NamesLinked /\ PushLinked /\ NamesOrdered /\ PushFresh /\ mode = "pushing" /\ CacheInv'
  BY PushDoneStep DEF FactsInv, CacheInv, PushDone
<1>1. /\ task.left = {} /\ mode' = "idle" /\ task' = NoTask
      /\ UNCHANGED <<now, names, label, ips, addr, client, out>>
  BY DEF PushDone
<1>2. FactsDue' = {} /\ Made' = {}
  BY <1>1, NothingDueNext
<1>3. FactsInv'
  BY <1>0, <1>1, <1>2 DEF FactsInv, NamesOrdered, PushFresh, NoTask
<1>4. LiveAddrs' = LiveAddrs /\ \A b : HeaderFacts(b)' = HeaderFacts(b) /\ Expired(b)' = Expired(b)
  BY <1>1 DEF LiveAddrs, HeaderFacts, Expired
<1>5. ASSUME NEW b \in Made
      PROVE  b \in LiveAddrs /\ ~Expired(b) /\ label[addr[b].parent] = task.name /\ task.name \in RawNames
  <2>1. b \in LiveAddrs /\ addr[b].parent = task.header
    BY <1>0 DEF PushLinked, AddrsOf
  <2>2. label[task.header] = task.name /\ task.name \in RawNames /\ addr[b].expires > now
    BY <1>0 DEF PushFresh
  <2>3. addr[b].expires \in Nat /\ now \in Nat
    BY <1>0, <2>1 DEF CacheTypes, CacheTypeOK, AddrHeader, LiveAddrs
  <2> QED
    BY <2>1, <2>2, <2>3 DEF Expired
<1>6. Visible' = Visible \cup Made
  <2>1. \A b : b \in Visible' <=> b \in LiveAddrs /\ ~Expired(b) /\ label[addr[b].parent] \in RawNames
    BY <1>1, <1>2, <1>4 DEF Visible
  <2> QED
    BY <1>5, <2>1 DEF Visible
<1>7. FactsDue = UNION {HeaderFacts(b) : b \in Made}
  <2>1. FactsDue = UNION {{<<Lower(task.name), x, addr[b].expires>> : x \in addr[b].addrs} : b \in Made}
    BY <1>1 DEF FactsDue, FactsLeft, FactsOf, Made
  <2>2. ASSUME NEW b \in Made
        PROVE  HeaderFacts(b) = {<<Lower(task.name), x, addr[b].expires>> : x \in addr[b].addrs}
    <3>1. Lower(task.name) = task.name
      BY <1>5, LettersNat, LowerStored DEF AskedLower
    <3> QED
      BY <1>5, <3>1 DEF HeaderFacts
  <2> QED
    BY <2>1, <2>2
<1>8. FactsSeen = VisibleFacts /\ FactsSeen' = VisibleFacts'
  BY <1>3, FactsSeenExact, FactsSeenNext
<1>9. VisibleFacts' = UNION {HeaderFacts(b) : b \in Visible \cup Made}
  BY <1>4, <1>6 DEF VisibleFacts
<1>10. FactsSeen' = FactsSeen \cup FactsDue
  BY <1>7, <1>8, <1>9 DEF VisibleFacts
<1> QED
  BY <1>1, <1>2, <1>3, <1>10 DEF Seen!Store

LEMMA TickFacts ==
  ASSUME AskedLower, FactsInv, Tick
  PROVE  FactsInv' /\ Seen!Pass
<1>0. /\ CacheInv /\ CacheTypes /\ NamesOrdered /\ task = NoTask /\ mode = "idle" /\ CacheInv'
  BY TickStep DEF FactsInv, CacheInv, PushLinked, Tick
<1>1. now' = now + 1 /\ UNCHANGED <<names, label, ips, addr, byExpiry, mode, task, client, out>>
  BY DEF Tick
<1>2. FactsDue = {} /\ FactsDue' = {} /\ Made = {} /\ Made' = {}
  BY <1>0, <1>1, NothingDue, NothingDueNext
<1>3. FactsInv'
  BY <1>0, <1>1, <1>2 DEF FactsInv, NamesOrdered, PushFresh, NoTask
<1>4. LiveAddrs' = LiveAddrs /\ \A b : HeaderFacts(b)' = HeaderFacts(b)
  BY <1>1 DEF LiveAddrs, HeaderFacts
<1>5. \A b \in LiveAddrs : /\ ~Expired(b) <=> addr[b].expires > now
                           /\ ~Expired(b)' <=> addr[b].expires > now + 1
                           /\ addr[b].expires \in Nat /\ now \in Nat
  BY <1>0, <1>1 DEF Expired, CacheTypes, CacheTypeOK, AddrHeader, LiveAddrs
<1>6. Visible' = {b \in Visible : addr[b].expires > now + 1} /\ Visible \subseteq LiveAddrs
  BY <1>1, <1>2, <1>4, <1>5 DEF Visible
<1>7. FactsSeen = VisibleFacts /\ FactsSeen' = VisibleFacts'
  BY <1>3, FactsSeenExact, FactsSeenNext
<1>8. VisibleFacts' = UNION {HeaderFacts(b) : b \in Visible'}
  BY <1>4 DEF VisibleFacts
<1>9. \A b \in Visible : \A f \in HeaderFacts(b) : f[3] = addr[b].expires
  BY DEF HeaderFacts
<1>10. ASSUME NEW f PROVE f \in FactsSeen' <=> f \in FactsSeen /\ f[3] > now'
  <2>1. ASSUME f \in FactsSeen' PROVE f \in FactsSeen /\ f[3] > now'
    <3>1. PICK b \in Visible' : f \in HeaderFacts(b)
      BY <1>7, <1>8, <2>1
    <3> QED
      BY <1>1, <1>6, <1>7, <1>9, <3>1 DEF VisibleFacts
  <2>2. ASSUME f \in FactsSeen, f[3] > now' PROVE f \in FactsSeen'
    <3>1. PICK b \in Visible : f \in HeaderFacts(b)
      BY <1>7, <2>2 DEF VisibleFacts
    <3>2. b \in Visible'
      BY <1>1, <1>6, <1>9, <2>2, <3>1
    <3> QED
      BY <1>7, <1>8, <3>1, <3>2
  <2> QED
    BY <2>1, <2>2
<1>11. FactsSeen' = {f \in FactsSeen : f[3] > now'}
  BY <1>10
<1> QED
  BY <1>1, <1>2, <1>3, <1>11 DEF Seen!Pass

LEMMA DestroyCacheFacts ==
  ASSUME AskedLower, FactsInv, DestroyCache
  PROVE  FactsInv' /\ Seen!Discard
<1>0. /\ CacheInv /\ task = NoTask /\ mode = "idle" /\ CacheInv'
  BY DestroyCacheStep DEF FactsInv, CacheInv, PushLinked, DestroyCache
<1>1. /\ names' = <<>> /\ addr' = [i \in Places |-> NoAddr]
      /\ UNCHANGED <<now, mode, task, client, out>>
  BY DEF DestroyCache
<1>2. FactsDue = {} /\ FactsDue' = {} /\ Made' = {}
  BY <1>0, <1>1, NothingDue, NothingDueNext
<1>3. FactsInv'
  BY <1>0, <1>1, <1>2 DEF FactsInv, NamesOrdered, PushFresh, NoTask
<1>4. Visible' = {}
  BY <1>1 DEF Visible, LiveAddrs
<1>5. FactsSeen' = {}
  BY <1>3, <1>4, FactsSeenNext DEF VisibleFacts
<1> QED
  BY <1>1, <1>2, <1>3, <1>5 DEF Seen!Discard

LEMMA CacheFactsStep ==
  ASSUME AskedLower, FactsInv, [CacheNext]_cacheVars
  PROVE  FactsInv' /\ [Seen!Next]_<<now, FactsSeen, FactsDue>>
<1>0. CacheInv'
  BY CacheNextStep DEF FactsInv
<1>1. CASE UNCHANGED cacheVars
  BY <1>0, <1>1, QuietFacts DEF cacheVars, Untouched
<1>2. CASE CacheNext
  <2>1. CASE PruneOne
    BY <2>1, PruneOneFacts
  <2>2. CASE PushGroup
    BY <2>2, PushGroupFacts
  <2>3. CASE PushFails
    BY <2>3, PushFailsFacts DEF Seen!Next
  <2>4. CASE PushDone
    BY <2>4, PushDoneFacts DEF Seen!Next
  <2>5. CASE Tick
    BY <2>5, TickFacts DEF Seen!Next
  <2>6. CASE DestroyCache
    BY <2>6, DestroyCacheFacts DEF Seen!Next
  <2>7. CASE PruneEnds
    <3>1. Untouched /\ UNCHANGED now /\ (mode = "pushing" <=> mode' = "pushing")
      BY <2>7 DEF PruneEnds, Untouched
    <3> QED
      BY <1>0, <3>1, QuietFacts
  <2>8. ASSUME NEW c \in Clients, NEW answer \in Batches, PushName(c, answer)
        PROVE  FactsInv' /\ [Seen!Next]_<<now, FactsSeen, FactsDue>>
    BY <2>8, PushNameFacts DEF Seen!Next
  <2>9. ASSUME NEW c \in Clients,
               \/ \E raw \in RawNames : Resolve(c, raw)
               \/ HostsHit(c) \/ PullHit(c) \/ PullMiss(c)
               \/ \E answer \in Batches : AskFails(c, answer)
        PROVE  FactsInv' /\ [Seen!Next]_<<now, FactsSeen, FactsDue>>
    <3>1. Untouched /\ UNCHANGED now /\ (mode = "pushing" <=> mode' = "pushing")
      BY <2>9 DEF Resolve, HostsHit, PullHit, PullMiss, AskFails, Untouched
    <3> QED
      BY <1>0, <3>1, QuietFacts
  <2> QED
    BY <1>2, <2>1, <2>2, <2>3, <2>4, <2>5, <2>6, <2>7, <2>8, <2>9 DEF CacheNext
<1> QED
  BY <1>1, <1>2

(* The memory cache gives exactly what was pushed and has not expired, all  *)
(* of a push or nothing, for any number of clients, names and headers,      *)
(* where names are asked for in lower case.                                 *)
THEOREM CacheKeepsFacts == ASSUME AskedLower PROVE CacheSpec => KeepsFacts
<1>1. CacheInit => FactsInv /\ Seen!Init
  <2> SUFFICES ASSUME CacheInit PROVE FactsInv /\ Seen!Init
    OBVIOUS
  <2>1. CacheInv /\ task = NoTask /\ names = <<>> /\ now = 0 /\ mode = "idle"
    BY CacheInitInv DEF CacheInit
  <2>2. FactsDue = {} /\ Made = {}
    BY <2>1, NothingDue
  <2>3. FactsInv
    BY <2>1, <2>2 DEF FactsInv, NamesOrdered, PushFresh, NoTask
  <2>4. Visible = {}
    BY DEF CacheInit, Visible, LiveAddrs
  <2>5. FactsSeen = {}
    BY <2>3, <2>4, FactsSeenExact DEF VisibleFacts
  <2> QED
    BY <2>1, <2>2, <2>3, <2>5 DEF Seen!Init
<1>2. FactsInv /\ [CacheNext]_cacheVars => FactsInv' /\ [Seen!Next]_<<now, FactsSeen, FactsDue>>
  BY CacheFactsStep
<1> QED
  BY <1>1, <1>2, PTL DEF CacheSpec, KeepsFacts, Seen!Spec

-----------------------------------------------------------------------------
(* Answers.  The header first: setting one field of the flags leaves the    *)
(* others, which is division with a remainder.                              *)

(* The quotient and the remainder are the only ones. *)
LEMMA DivExact ==
  ASSUME NEW u \in Nat \ {0}, NEW q \in Nat, NEW d \in 0 .. u - 1
  PROVE  u * q + d \in Nat /\ (u * q + d) \div u = q /\ (u * q + d) % u = d
<1> DEFINE m == u * q + d
<1>1. m \in Nat
  OBVIOUS
<1>2. m \div u = q
  OBVIOUS
<1> HIDE DEF m
<1>3. m = u * (m \div u) + (m % u) /\ m % u \in 0 .. u - 1
  BY <1>1, Divided
<1>4. m % u = d
  BY <1>2, <1>3 DEF m
<1> QED
  BY <1>1, <1>2, <1>4 DEF m

(* Dividing twice. *)
LEMMA DivTwice ==
  ASSUME NEW w \in Nat \ {0}, NEW k \in Nat \ {0}, NEW m \in Nat
  PROVE  m \div (w * k) = (m \div w) \div k
<1> DEFINE a == m \div w
           e == m % w
           b == a \div k
           j == a % k
<1>1. a \in Nat /\ e \in 0 .. w - 1 /\ m = w * a + e
  BY Divided
<1> HIDE DEF a, e
<1>2. b \in Nat /\ j \in 0 .. k - 1 /\ a = k * b + j
  BY <1>1, Divided
<1> HIDE DEF b, j
<1>3. w * k \in Nat \ {0}
  OBVIOUS
<1>4. m = (w * k) * b + (w * j + e)
  BY <1>1, <1>2
<1>5. w * j + e \in 0 .. w * k - 1
  <2>1. PICK i \in Nat : k = j + 1 + i
    <3>1. k - j - 1 \in Nat /\ k = j + 1 + (k - j - 1)
      BY <1>2
    <3> QED
      BY <3>1
  <2>2. w * k = w * j + w + w * i /\ w * i \in Nat /\ w * j \in Nat
    BY <1>2, <2>1
  <2> QED
    BY <1>1, <1>2, <2>2
<1> HIDE DEF a, b
<1>6. m \div (w * k) = b
  <2> DEFINE W == w * k
             D == w * j + e
  <2>1. W \in Nat \ {0} /\ D \in 0 .. W - 1 /\ m = W * b + D
    BY <1>3, <1>4, <1>5
  <2> HIDE DEF W, D
  <2>2. m \div W = b
    BY <1>2, <2>1, DivExact
  <2> QED
    BY <2>2 DEF W
<1> QED
  BY <1>6 DEF a, b

IsField(f) == f.unit \in Nat \ {0} /\ f.values \in Nat \ {0}
Above(g, f) == \E k \in Nat \ {0} : g.unit = (f.unit * f.values) * k

(* A field that is set has its new value, and the fields above it theirs. *)
LEMMA SetExact ==
  ASSUME NEW f, IsField(f), NEW mask \in Nat, NEW v \in 0 .. f.values - 1
  PROVE  /\ SetBitfield(f, mask, v) \in Nat
         /\ GetBitfield(f, SetBitfield(f, mask, v)) = v
         /\ \A g : Above(g, f) => GetBitfield(g, SetBitfield(f, mask, v)) = GetBitfield(g, mask)
<1> DEFINE u == f.unit
           c == f.values
           q == mask \div u
           d == mask % u
           a == q \div c
           b == q % c
           r == SetBitfield(f, mask, v)
           w == u * c
<1>0. u \in Nat \ {0} /\ c \in Nat \ {0}
  BY DEF IsField
<1>1. q \in Nat /\ d \in 0 .. u - 1 /\ mask = u * q + d
  BY <1>0, Divided
<1>2. r = mask - b * u + v * u
  BY DEF SetBitfield, GetBitfield
<1> HIDE DEF q, d, r
<1>3. a \in Nat /\ b \in 0 .. c - 1 /\ q = c * a + b
  BY <1>0, <1>1, Divided
<1>4. u \in Nat \ {0} /\ c \in Nat \ {0}
  BY <1>0
<1> HIDE DEF a, b, u, c
<1>5. r = u * (c * a + v) + d /\ c * a + v \in Nat
  <2>1. mask = u * (c * a) + u * b + d
    BY <1>1, <1>3, <1>4
  <2>2. c * a \in Nat /\ u * b \in Nat /\ u * v \in Nat /\ v \in Nat
    BY <1>3, <1>4 DEF c
  <2>3. r = u * (c * a) + u * v + d
    BY <1>1, <1>2, <1>3, <1>4, <2>1, <2>2
  <2> QED
    BY <1>1, <1>3, <1>4, <2>2, <2>3
<1>6. r \in Nat /\ r \div u = c * a + v
  BY <1>1, <1>4, <1>5, DivExact
<1>7. (c * a + v) % c = v /\ (c * a + v) \div c = a
  <2>1. v \in 0 .. c - 1
    BY DEF c
  <2> QED
    BY <1>3, <1>4, <2>1, DivExact
<1>8. GetBitfield(f, r) = v
  BY <1>6, <1>7 DEF GetBitfield, u, c
<1>9. ASSUME NEW g, NEW k \in Nat \ {0}, g.unit = w * k
      PROVE  GetBitfield(g, r) = GetBitfield(g, mask)
  <2>1. mask \div w = a /\ r \div w = a
    <3>1. mask \div w = (mask \div u) \div c /\ r \div w = (r \div u) \div c
      BY <1>4, <1>6, DivTwice
    <3> QED
      BY <1>6, <1>7, <3>1 DEF q, a
  <2>2. w \in Nat \ {0}
    BY <1>4
  <2> HIDE DEF w
  <2>3. mask \div (w * k) = a \div k /\ r \div (w * k) = a \div k
    BY <1>6, <2>1, <2>2, DivTwice
  <2> QED
    BY <1>9, <2>3 DEF GetBitfield
<1> QED
  BY <1>6, <1>8, <1>9 DEF r, w, u, c, Above

(* A server's flags are read as they were set. *)
LEMMA FlagsRead ==
  ASSUME NEW h, HeaderFits(h)
  PROVE  /\ GetBitfield(QR, HeaderFlags(h)) = h.qr
         /\ GetBitfield(TC, HeaderFlags(h)) = h.tc
         /\ GetBitfield(RCODE, HeaderFlags(h)) = h.rcode
<1> DEFINE qr == SetBitfield(QR, h.was, h.qr)
           opcode == SetBitfield(OPCODE, qr, h.opcode)
           aa == SetBitfield(AA, opcode, h.aa)
           tc == SetBitfield(TC, aa, h.tc)
           rd == SetBitfield(RD, tc, h.rd)
           ra == SetBitfield(RA, rd, h.ra)
           all == SetBitfield(RCODE, ra, h.rcode)
<1>1. HeaderFlags(h) = all
  BY DEF HeaderFlags
<1>2. /\ h.was \in Nat /\ h.qr \in 0 .. QR.values - 1 /\ h.opcode \in 0 .. OPCODE.values - 1
      /\ h.aa \in 0 .. AA.values - 1 /\ h.tc \in 0 .. TC.values - 1 /\ h.rd \in 0 .. RD.values - 1
      /\ h.ra \in 0 .. RA.values - 1 /\ h.rcode \in 0 .. RCODE.values - 1
  BY DEF HeaderFits
<1>3. /\ IsField(QR) /\ IsField(OPCODE) /\ IsField(AA) /\ IsField(TC) /\ IsField(RD)
      /\ IsField(RA) /\ IsField(RCODE)
  BY DEF IsField, QR, OPCODE, AA, TC, RD, RA, RCODE
<1>4. /\ Above(QR, OPCODE) /\ Above(QR, AA) /\ Above(QR, TC) /\ Above(QR, RD) /\ Above(QR, RA)
      /\ Above(QR, RCODE)
  <2>1. /\ 32768 = (2048 * 16) * 1 /\ 32768 = (1024 * 2) * 16 /\ 32768 = (512 * 2) * 32
        /\ 32768 = (256 * 2) * 64 /\ 32768 = (128 * 2) * 128 /\ 32768 = (1 * 16) * 2048
    OBVIOUS
  <2> QED
    BY <2>1 DEF Above, QR, OPCODE, AA, TC, RD, RA, RCODE
<1>5. Above(TC, RD) /\ Above(TC, RA) /\ Above(TC, RCODE)
  <2>1. 512 = (256 * 2) * 1 /\ 512 = (128 * 2) * 2 /\ 512 = (1 * 16) * 32
    OBVIOUS
  <2> QED
    BY <2>1 DEF Above, TC, RD, RA, RCODE
<1>6. qr \in Nat /\ GetBitfield(QR, qr) = h.qr
  BY <1>2, <1>3, SetExact
<1> HIDE DEF qr
<1>7. opcode \in Nat /\ GetBitfield(QR, opcode) = h.qr
  <2>1. qr \in Nat /\ IsField(OPCODE) /\ h.opcode \in 0 .. OPCODE.values - 1 /\ Above(QR, OPCODE)
    BY <1>2, <1>3, <1>4, <1>6
  <2> QED
    BY <1>6, <2>1, SetExact
<1> HIDE DEF opcode
<1>8. aa \in Nat /\ GetBitfield(QR, aa) = h.qr
  <2>1. opcode \in Nat /\ IsField(AA) /\ h.aa \in 0 .. AA.values - 1 /\ Above(QR, AA)
    BY <1>2, <1>3, <1>4, <1>7
  <2> QED
    BY <1>7, <2>1, SetExact
<1> HIDE DEF aa
<1>9. tc \in Nat /\ GetBitfield(QR, tc) = h.qr /\ GetBitfield(TC, tc) = h.tc
  <2>1. aa \in Nat /\ IsField(TC) /\ h.tc \in 0 .. TC.values - 1 /\ Above(QR, TC)
    BY <1>2, <1>3, <1>4, <1>8
  <2> QED
    BY <1>8, <2>1, SetExact
<1> HIDE DEF tc
<1>10. rd \in Nat /\ GetBitfield(QR, rd) = h.qr /\ GetBitfield(TC, rd) = h.tc
  <2>1. tc \in Nat /\ IsField(RD) /\ h.rd \in 0 .. RD.values - 1 /\ Above(QR, RD) /\ Above(TC, RD)
    BY <1>2, <1>3, <1>4, <1>5, <1>9
  <2> QED
    BY <1>9, <2>1, SetExact
<1> HIDE DEF rd
<1>11. ra \in Nat /\ GetBitfield(QR, ra) = h.qr /\ GetBitfield(TC, ra) = h.tc
  <2>1. rd \in Nat /\ IsField(RA) /\ h.ra \in 0 .. RA.values - 1 /\ Above(QR, RA) /\ Above(TC, RA)
    BY <1>2, <1>3, <1>4, <1>5, <1>10
  <2> QED
    BY <1>10, <2>1, SetExact
<1> HIDE DEF ra
<1>12. GetBitfield(QR, all) = h.qr /\ GetBitfield(TC, all) = h.tc /\ GetBitfield(RCODE, all) = h.rcode
  <2>1. /\ ra \in Nat /\ IsField(RCODE) /\ h.rcode \in 0 .. RCODE.values - 1
        /\ Above(QR, RCODE) /\ Above(TC, RCODE)
    BY <1>2, <1>3, <1>4, <1>5, <1>11
  <2> QED
    BY <1>11, <2>1, SetExact
<1> QED
  BY <1>1, <1>12

-----------------------------------------------------------------------------
(* Counting the wanted records of one more. *)
LEMMA CountStep ==
  ASSUME NEW n \in Nat
  PROVE  /\ Count(n) \in 0 .. n
         /\ Count(n + 1) = IF Wanted(resp.records[n + 1]) THEN Count(n) + 1 ELSE Count(n)
<1> DEFINE I(m) == {k \in 1 .. m : Wanted(resp.records[k])}
<1>1. \A m : Count(m) = Cardinality(I(m))
  BY DEF Count
<1>2. I(n) \subseteq 1 .. n /\ n + 1 \notin I(n)
  OBVIOUS
<1>3. I(n + 1) = IF Wanted(resp.records[n + 1]) THEN I(n) \cup {n + 1} ELSE I(n)
  <2>1. \A k : k \in 1 .. n + 1 <=> k \in 1 .. n \/ k = n + 1
    OBVIOUS
  <2> QED
    BY <2>1
<1> HIDE DEF I
<1>4. Cardinality(I(n)) \in 0 .. n
  BY <1>2, CountUpTo
<1>5. IsFiniteSet(I(n))
  <2>1. IsFiniteSet(1 .. n)
    BY FS_Interval
  <2> QED
    BY <1>2, <2>1, FS_Subset
<1>6. Cardinality(I(n) \cup {n + 1}) = Cardinality(I(n)) + 1
  BY <1>2, <1>5, FS_AddElement
<1> QED
  BY <1>1, <1>3, <1>4, <1>6

(* Nothing is counted at first. *)
LEMMA CountZero == Count(0) = 0
<1>1. Count(0) \in 0 .. 0
  BY CountStep
<1> QED
  BY <1>1

(* A wanted record among the first n is counted in them. *)
LEMMA CountOne ==
  ASSUME NEW n \in Nat, NEW k \in 1 .. n, Wanted(resp.records[k])
  PROVE  Count(k) \in 1 .. Count(n) /\ Count(n) \in Nat
<1> DEFINE A_(m) == Count(k) <= Count(m)
           S == {m \in 0 .. n : k <= m => A_(m)}
<1>0. \A m \in Nat : Count(m) \in Nat
  BY CountStep
<1>1. k - 1 \in Nat /\ (k - 1) + 1 = k
  OBVIOUS
<1>2. Count(k) = Count(k - 1) + 1
  BY <1>1, CountStep
<1>3. Count(k) \in Nat \ {0}
  BY <1>0, <1>1, <1>2
<1>4. 0 \in S
  OBVIOUS
<1>5. ASSUME NEW m \in 1 .. n, m - 1 \in S PROVE m \in S
  <2>1. CASE k = m
    BY <1>3, <2>1
  <2>2. CASE k <= m - 1
    <3>1. m - 1 \in Nat /\ (m - 1) + 1 = m /\ Count(k) <= Count(m - 1)
      BY <1>5, <2>2
    <3>2. Count(m - 1) <= Count(m)
      BY <1>0, <3>1, CountStep
    <3> QED
      BY <1>0, <3>1, <3>2
  <2>3. CASE m < k
    BY <2>3
  <2> QED
    BY <2>1, <2>2, <2>3
<1> HIDE DEF S
<1>6. 0 .. n \subseteq S
  BY <1>4, <1>5, UpTo
<1>7. n \in S
  BY <1>6
<1> QED
  BY <1>0, <1>3, <1>7 DEF S

(* What has been written to `out` when the first n records are read. *)
GotEntry(rr) == [addr |-> rr.addr, ttl |-> rr.ttl]
GotEntries == {GotEntry(m.records[k]) : m \in Responses, k \in Nat}
Collected(n) ==
  /\ got \in Seq(GotEntries)
  /\ Len(got) = IF size < Count(n) THEN size ELSE Count(n)
  /\ \A k \in 1 .. n : Wanted(resp.records[k]) /\ Count(k) <= size => got[Count(k)] = GotEntry(resp.records[k])

(* The checks of validate_response(). *)
HeaderRight(h) == h.rcode = 0 /\ h.qr = 1 /\ h.tc = 0 /\ h.qdcount = 1
Total(h) == h.ancount + h.nscount + h.arcount

Refused == {"ignored", "rcode", "GOT_REQUEST_INSTEAD", "QUESTION_TRUNCATED", "INVALID_QDCOUNT",
            "QUESTION_VALUE_MISMATCH", "decode"}

(* How far the message has been found right. *)
Started == {"header", "question", "answers", "rest", "done"}
AnswerInv ==
  /\ phase \in {"idle"} \cup Refused \cup Started
  /\ taken \in Nat
  /\ phase = "idle" => taken = 0 /\ got = <<>>
  /\ phase # "idle" => resp \in Responses /\ size \in Nat
  /\ phase \in Refused => ~Complete(resp)
  /\ phase \in Started =>
       /\ ~resp.short /\ flags = HeaderFlags(resp.header)
       /\ taken <= Len(resp.records)
       /\ \A k \in 1 .. taken : RecordDecodes(resp.records[k])
  /\ phase \in {"header", "question"} => taken = 0 /\ got = <<>>
  /\ phase \in {"question", "answers", "rest", "done"} => HeaderRight(resp.header)
  /\ phase \in {"answers", "rest", "done"} => QuestionDecodes(resp.question) /\ QuestionMatches(resp.question)
  /\ phase = "answers" => taken <= resp.header.ancount /\ Collected(taken)
  /\ phase \in {"rest", "done"} =>
       /\ resp.header.ancount <= taken /\ taken <= Total(resp.header)
       /\ Collected(resp.header.ancount)
  /\ phase = "done" => taken = Total(resp.header)

(* A response's counts are numbers. *)
LEMMA CountsNat ==
  ASSUME NEW m \in Responses
  PROVE  /\ HeaderFits(m.header) /\ Len(m.records) \in Nat
         /\ m.header.ancount \in Nat /\ m.header.nscount \in Nat /\ m.header.arcount \in Nat
         /\ m.header.qdcount \in Nat /\ Total(m.header) \in Nat /\ m.header.ancount <= Total(m.header)
<1>1. HeaderFits(m.header) /\ Len(m.records) \in Nat
  BY AnswerAssumption
<1>2. {m.header.qdcount, m.header.ancount, m.header.nscount, m.header.arcount} \subseteq Nat
  BY <1>1 DEF HeaderFits
<1>3. /\ m.header.ancount \in Nat /\ m.header.nscount \in Nat /\ m.header.arcount \in Nat
      /\ m.header.qdcount \in Nat
  BY <1>2, Zenon
<1>4. Total(m.header) \in Nat /\ m.header.ancount <= Total(m.header)
  BY <1>3 DEF Total
<1> QED
  BY <1>1, <1>3, <1>4

LEMMA AnswerInitInv == AnswerInit => AnswerInv
  BY DEF AnswerInit, AnswerInv, Refused, Started

LEMMA ReceiveMessageStep ==
  ASSUME AnswerInv, NEW m \in Responses, NEW families \in Wants, NEW n \in Sizes, ReceiveMessage(m, families, n)
  PROVE  AnswerInv'
<1>1. n \in Nat /\ Len(m.records) \in Nat
  BY AnswerAssumption
<1>2. /\ phase = "idle" /\ resp' = m /\ size' = n /\ flags' = HeaderFlags(m.header) /\ taken' = 0 /\ got' = <<>>
      /\ phase' = IF m.short THEN "ignored" ELSE "header"
  BY DEF ReceiveMessage, AnswerInv
<1>3. CASE m.short
  BY <1>1, <1>2, <1>3 DEF AnswerInv, Refused, Started, Complete
<1>4. CASE ~m.short
  BY <1>1, <1>2, <1>4 DEF AnswerInv, Refused, Started
<1> QED
  BY <1>3, <1>4

(* What stays as it is when reading ends or goes on to the next part. *)
LEMMA CollectedSame ==
  ASSUME UNCHANGED <<resp, want, size, got>>, NEW n
  PROVE  Collected(n)' <=> Collected(n)
  BY DEF Collected, Count, Wanted

LEMMA CompleteSame ==
  ASSUME UNCHANGED <<resp, want>>
  PROVE  Complete(resp)' <=> Complete(resp)
  BY DEF Complete, QuestionMatches, AskedType

LEMMA ValidateHeaderStep ==
  ASSUME AnswerInv, ValidateHeader
  PROVE  AnswerInv'
<1> DEFINE h == resp.header
<1>1. /\ resp \in Responses /\ size \in Nat /\ ~resp.short /\ flags = HeaderFlags(h) /\ taken = 0 /\ got = <<>>
      /\ phase = "header" /\ UNCHANGED <<resp, flags, want, size, taken, got>>
  BY DEF AnswerInv, ValidateHeader, Started, Ends
<1>2. HeaderFits(h) /\ Len(resp.records) \in Nat
  BY <1>1, CountsNat
<1>3. GetBitfield(QR, flags) = h.qr /\ GetBitfield(TC, flags) = h.tc /\ GetBitfield(RCODE, flags) = h.rcode
  BY <1>1, <1>2, FlagsRead
<1>4. phase' = IF h.rcode # 0 THEN "rcode" ELSE IF h.qr # 1 THEN "GOT_REQUEST_INSTEAD"
               ELSE IF h.tc = 1 THEN "QUESTION_TRUNCATED" ELSE IF h.qdcount # 1 THEN "INVALID_QDCOUNT" ELSE "question"
  BY <1>3 DEF ValidateHeader, Ends
<1>5. CASE HeaderRight(h)
  <2>1. phase' = "question"
    BY <1>4, <1>5 DEF HeaderRight
  <2> QED
    BY <1>1, <1>2, <1>5, <2>1 DEF AnswerInv, Refused, Started
<1>6. CASE ~HeaderRight(h)
  <2>1. h.tc # 1 => h.tc = 0
    BY <1>2, SMTT(30) DEF HeaderFits, TC
  <2>2. phase' \in {"rcode", "GOT_REQUEST_INSTEAD", "QUESTION_TRUNCATED", "INVALID_QDCOUNT"}
    BY <1>4, <1>6, <2>1 DEF HeaderRight
  <2>3. ~Complete(resp)
    BY <1>6 DEF Complete, HeaderRight
  <2>4. ~Complete(resp)'
    BY <1>1, <2>3, CompleteSame
  <2> QED
    BY <1>1, <2>2, <2>4 DEF AnswerInv, Refused, Started
<1> QED
  BY <1>5, <1>6

LEMMA ValidateQuestionStep ==
  ASSUME AnswerInv, ValidateQuestion
  PROVE  AnswerInv'
<1> DEFINE q == resp.question
<1>1. /\ resp \in Responses /\ size \in Nat /\ ~resp.short /\ flags = HeaderFlags(resp.header) /\ taken = 0 /\ got = <<>>
      /\ phase = "question" /\ HeaderRight(resp.header) /\ UNCHANGED <<resp, flags, want, size, taken, got>>
  BY DEF AnswerInv, ValidateQuestion, Started, Ends
<1>2. resp.header.ancount \in Nat /\ Len(resp.records) \in Nat
  BY <1>1, CountsNat
<1>3. CASE QuestionDecodes(q) /\ QuestionMatches(q)
  <2>1. phase' = "answers"
    BY <1>3 DEF ValidateQuestion, Ends
  <2>2. Collected(0)
    BY <1>1, CountZero DEF Collected
  <2>3. Collected(0)'
    BY <1>1, <2>2, CollectedSame
  <2>4. QuestionMatches(q)'
    BY <1>1, <1>3 DEF QuestionMatches, AskedType
  <2> QED
    BY <1>1, <1>2, <1>3, <2>1, <2>3, <2>4 DEF AnswerInv, Refused, Started
<1>4. CASE ~(QuestionDecodes(q) /\ QuestionMatches(q))
  <2>1. phase' \in {"decode", "QUESTION_VALUE_MISMATCH"}
    BY <1>4 DEF ValidateQuestion, Ends
  <2>2. ~Complete(resp)
    BY <1>4 DEF Complete
  <2>3. ~Complete(resp)'
    BY <1>1, <2>2, CompleteSame
  <2> QED
    BY <1>1, <2>1, <2>3 DEF AnswerInv, Refused, Started
<1> QED
  BY <1>3, <1>4

(* A record that is missing or cannot be read makes the message incomplete. *)
LEMMA RecordFailsStep ==
  ASSUME AnswerInv, RecordFails
  PROVE  AnswerInv'
<1> DEFINE h == resp.header
<1>1. /\ resp \in Responses /\ size \in Nat /\ taken \in Nat /\ phase \in {"answers", "rest"}
      /\ phase' = "decode" /\ UNCHANGED <<resp, flags, want, size, taken, got>>
  BY DEF AnswerInv, RecordFails, Started, Ends
<1>2. h.ancount \in Nat /\ Total(h) \in Nat /\ h.ancount <= Total(h) /\ Len(resp.records) \in Nat
  BY <1>1, CountsNat
<1>3. taken < Total(h)
  <2>1. taken < h.ancount \/ taken < Total(h)
    BY DEF RecordFails, Total
  <2> QED
    BY <1>1, <1>2, <2>1
<1>4. ~Complete(resp)
  <2>1. CASE taken < Len(resp.records)
    <3>1. ~RecordDecodes(resp.records[taken + 1])
      BY <2>1 DEF RecordFails, HasRecord
    <3>2. taken + 1 \in 1 .. Total(h)
      BY <1>1, <1>2, <1>3
    <3> QED
      BY <3>1, <3>2 DEF Complete, Total
  <2>2. CASE ~(taken < Len(resp.records))
    <3>1. ~(Total(h) <= Len(resp.records))
      BY <1>1, <1>2, <1>3, <2>2
    <3> QED
      BY <3>1 DEF Complete, Total
  <2> QED
    BY <2>1, <2>2
<1>5. ~Complete(resp)'
  BY <1>1, <1>4, CompleteSame
<1> QED
  BY <1>1, <1>5 DEF AnswerInv, Refused, Started

(* An answer is written when it is wanted and there is room. *)
LEMMA CollectedNext ==
  ASSUME NEW n \in Nat, resp \in Responses, size \in Nat, Collected(n), UNCHANGED <<resp, want, size>>,
         got' = IF Len(got) < size /\ Wanted(resp.records[n + 1]) THEN Append(got, GotEntry(resp.records[n + 1])) ELSE got
  PROVE  Collected(n + 1)'
<1> DEFINE rr == resp.records[n + 1]
           c == Count(n)
           d == Count(n + 1)
<1>1. c \in 0 .. n /\ d = IF Wanted(rr) THEN c + 1 ELSE c
  BY CountStep
<1>2. GotEntry(rr) \in GotEntries
  BY DEF GotEntries
<1>3. got \in Seq(GotEntries) /\ Len(got) = (IF size < c THEN size ELSE c) /\ Len(got) \in Nat
  BY DEF Collected
<1>4. ASSUME NEW k \in 1 .. n, Wanted(resp.records[k]), Count(k) <= size
      PROVE  got[Count(k)] = GotEntry(resp.records[k]) /\ Count(k) \in 1 .. Len(got)
  <2>1. Count(k) \in 1 .. c
    BY CountOne, <1>4
  <2> QED
    BY <1>1, <1>3, <1>4, <2>1, SMTT(30) DEF Collected
<1> DEFINE w == Wanted(rr)
           e == GotEntry(rr)
<1>5. d \in Nat
  BY <1>1
<1>6. got' = IF Len(got) < size /\ w THEN Append(got, e) ELSE got
  OBVIOUS
<1> HIDE DEF c, w, e
<1>7. got' \in Seq(GotEntries) /\ Len(got') = (IF size < d THEN size ELSE d)
  <2>1. e \in GotEntries
    BY <1>2 DEF e
  <2>2. CASE w
    <3>1. d = c + 1
      BY <1>1, <2>2 DEF w, c
    <3> HIDE DEF d
    <3> QED
      BY <1>1, <1>3, <1>6, <2>1, <2>2, <3>1
  <2>3. CASE ~w
    <3>1. d = c
      BY <1>1, <2>3 DEF w, c
    <3> HIDE DEF d
    <3> QED
      BY <1>1, <1>3, <1>6, <2>3, <3>1
  <2> QED
    BY <2>2, <2>3
<1>8. ASSUME NEW k \in 1 .. n + 1, Wanted(resp.records[k]), Count(k) <= size
      PROVE  got'[Count(k)] = GotEntry(resp.records[k])
  <2>1. CASE k \in 1 .. n
    <3>1. got[Count(k)] = GotEntry(resp.records[k]) /\ Count(k) \in 1 .. Len(got)
      BY <1>4, <1>8, <2>1
    <3> DEFINE i == Count(k)
    <3> HIDE DEF i
    <3>2. i \in 1 .. Len(got) => got'[i] = got[i]
      BY <1>2, <1>3, <1>6 DEF e
    <3> QED
      BY <3>1, <3>2 DEF i
  <2>2. CASE k = n + 1
    <3>1. w /\ e = GotEntry(resp.records[k]) /\ Count(k) = d /\ d = c + 1
      BY <1>1, <1>8, <2>2 DEF w, e, c
    <3>2. c + 1 <= size
      BY <1>8, <3>1
    <3>3. Len(got) = c /\ c < size
      BY <1>1, <1>3, <3>2
    <3>4. got' = Append(got, e)
      BY <1>6, <3>1, <3>3
    <3>5. Append(got, e)[c + 1] = e
      BY <1>2, <1>3, <3>3 DEF e
    <3> QED
      BY <3>1, <3>4, <3>5
  <2>3. k \in 1 .. n \/ k = n + 1
    OBVIOUS
  <2> QED
    BY <2>1, <2>2, <2>3
<1>9. (\A k : Count(k)' = Count(k)) /\ (\A k : Wanted(resp.records[k])' <=> Wanted(resp.records[k]))
  BY DEF Count, Wanted
<1> QED
  BY <1>7, <1>8, <1>9 DEF Collected, d

LEMMA ConsumeAnswerStep ==
  ASSUME AnswerInv, ConsumeAnswer
  PROVE  AnswerInv'
<1> DEFINE h == resp.header
<1>1. /\ resp \in Responses /\ size \in Nat /\ taken \in Nat /\ phase = "answers" /\ taken < h.ancount
      /\ ~resp.short /\ flags = HeaderFlags(h) /\ HeaderRight(h) /\ QuestionDecodes(resp.question)
      /\ QuestionMatches(resp.question) /\ Collected(taken) /\ taken' = taken + 1 /\ HasRecord
      /\ \A k \in 1 .. taken : RecordDecodes(resp.records[k])
      /\ UNCHANGED <<phase, resp, flags, want, size>>
  BY DEF AnswerInv, ConsumeAnswer, Started
<1>2. h.ancount \in Nat /\ Len(resp.records) \in Nat
  BY <1>1, CountsNat
<1>3. PICK n \in Nat : n = taken
  BY <1>1
<1>4. Collected(n + 1)'
  <2>1. got' = IF Len(got) < size /\ Wanted(resp.records[n + 1])
                 THEN Append(got, GotEntry(resp.records[n + 1])) ELSE got
    BY <1>3 DEF ConsumeAnswer, Record, Wanted, GotEntry
  <2>2. Collected(n)
    BY <1>1, <1>3
  <2> QED
    BY <1>1, <2>1, <2>2, CollectedNext
<1>5. taken < Len(resp.records) /\ RecordDecodes(resp.records[taken + 1])
  BY <1>1 DEF HasRecord
<1>6. \A k \in 1 .. taken + 1 : RecordDecodes(resp.records[k])
  <2>1. \A k \in 1 .. taken + 1 : k \in 1 .. taken \/ k = taken + 1
    BY <1>1
  <2> QED
    BY <1>1, <1>5, <2>1
<1>7. Collected(taken)'
  BY <1>1, <1>3, <1>4 DEF Collected
<1>8. QuestionMatches(resp.question)'
  BY <1>1 DEF QuestionMatches, AskedType
<1>9. taken' \in Nat /\ taken' <= h.ancount /\ taken' <= Len(resp.records)
  BY <1>1, <1>2, <1>5
<1> QED
  BY <1>1, <1>6, <1>7, <1>8, <1>9 DEF AnswerInv, Refused, Started

LEMMA AnswersEndStep ==
  ASSUME AnswerInv, AnswersEnd
  PROVE  AnswerInv'
<1> DEFINE h == resp.header
<1>1. /\ resp \in Responses /\ size \in Nat /\ taken \in Nat /\ phase = "answers" /\ taken = h.ancount
      /\ ~resp.short /\ flags = HeaderFlags(h) /\ HeaderRight(h) /\ QuestionDecodes(resp.question)
      /\ QuestionMatches(resp.question) /\ Collected(taken) /\ taken <= Len(resp.records)
      /\ \A k \in 1 .. taken : RecordDecodes(resp.records[k])
      /\ phase' = "rest" /\ UNCHANGED <<resp, flags, want, size, taken, got>>
  BY DEF AnswerInv, AnswersEnd, AnswersRead, Started, Ends
<1>2. h.ancount <= Total(h)
  BY <1>1, CountsNat
<1>3. PICK n : n = taken
  OBVIOUS
<1>4. Collected(n)'
  BY <1>1, <1>3, CollectedSame
<1>5. Collected(h.ancount)'
  BY <1>1, <1>3, <1>4 DEF Collected
<1>6. QuestionMatches(resp.question)'
  BY <1>1 DEF QuestionMatches, AskedType
<1>7. Total(resp.header)' = Total(h) /\ (h.ancount)' = h.ancount
  BY <1>1
<1> QED
  BY <1>1, <1>2, <1>5, <1>6, <1>7 DEF AnswerInv, Refused, Started

LEMMA ConsumeRestStep ==
  ASSUME AnswerInv, ConsumeRest
  PROVE  AnswerInv'
<1> DEFINE h == resp.header
<1>1. /\ resp \in Responses /\ size \in Nat /\ taken \in Nat /\ phase = "rest" /\ taken < Total(h)
      /\ ~resp.short /\ flags = HeaderFlags(h) /\ HeaderRight(h) /\ QuestionDecodes(resp.question)
      /\ QuestionMatches(resp.question) /\ Collected(h.ancount) /\ HasRecord /\ h.ancount <= taken
      /\ \A k \in 1 .. taken : RecordDecodes(resp.records[k])
      /\ taken' = taken + 1 /\ UNCHANGED <<phase, resp, flags, want, size, got>>
  BY DEF AnswerInv, ConsumeRest, Started, Total
<1>2. h.ancount \in Nat /\ Total(h) \in Nat /\ Len(resp.records) \in Nat
  BY <1>1, CountsNat
<1>3. PICK n \in Nat : n = h.ancount
  BY <1>2
<1>4. Collected(n)'
  BY <1>1, <1>3, CollectedSame
<1>5. Collected(h.ancount)'
  BY <1>1, <1>3, <1>4 DEF Collected
<1>6. QuestionMatches(resp.question)'
  BY <1>1 DEF QuestionMatches, AskedType
<1>7. taken < Len(resp.records) /\ RecordDecodes(resp.records[taken + 1])
  BY <1>1 DEF HasRecord
<1>8. \A k \in 1 .. taken + 1 : RecordDecodes(resp.records[k])
  <2>1. \A k \in 1 .. taken + 1 : k \in 1 .. taken \/ k = taken + 1
    BY <1>1
  <2> QED
    BY <1>1, <1>7, <2>1
<1>9. taken' \in Nat /\ taken' <= Len(resp.records) /\ taken' <= Total(h) /\ h.ancount <= taken'
  BY <1>1, <1>2, <1>7
<1>10. Total(resp.header)' = Total(h) /\ (h.ancount)' = h.ancount
  BY <1>1
<1> QED
  BY <1>1, <1>5, <1>6, <1>8, <1>9, <1>10 DEF AnswerInv, Refused, Started

LEMMA AnswerReturnStep ==
  ASSUME AnswerInv, Return
  PROVE  AnswerInv'
<1> DEFINE h == resp.header
<1>1. /\ resp \in Responses /\ size \in Nat /\ taken \in Nat /\ phase = "rest" /\ taken = Total(h)
      /\ ~resp.short /\ flags = HeaderFlags(h) /\ HeaderRight(h) /\ QuestionDecodes(resp.question)
      /\ QuestionMatches(resp.question) /\ Collected(h.ancount) /\ h.ancount <= taken /\ taken <= Len(resp.records)
      /\ \A k \in 1 .. taken : RecordDecodes(resp.records[k])
      /\ phase' = "done" /\ UNCHANGED <<resp, flags, want, size, taken, got>>
  BY DEF AnswerInv, Return, Started, Total, Ends
<1>2. Total(h) \in Nat
  BY <1>1, CountsNat
<1>3. PICK n : n = h.ancount
  OBVIOUS
<1>4. Collected(n)'
  BY <1>1, <1>3, CollectedSame
<1>5. Collected(h.ancount)'
  BY <1>1, <1>3, <1>4 DEF Collected
<1>6. QuestionMatches(resp.question)'
  BY <1>1 DEF QuestionMatches, AskedType
<1>7. Total(resp.header)' = Total(h) /\ (h.ancount)' = h.ancount
  BY <1>1
<1> QED
  BY <1>1, <1>2, <1>5, <1>6, <1>7 DEF AnswerInv, Refused, Started

(* A message that has been read to its end is complete; one that has been   *)
(* refused is not.                                                          *)
LEMMA AnswerInvImplies == AnswerInv => AnswerExact
<1> SUFFICES ASSUME AnswerInv, phase \notin Reading \cup {"idle"}
             PROVE  /\ (phase = "done") <=> Complete(resp)
                    /\ phase = "done" =>
                         LET n == resp.header.ancount
                         IN /\ Len(got) = IF size < Count(n) THEN size ELSE Count(n)
                            /\ \A k \in 1 .. n :
                                 Wanted(resp.records[k]) /\ Count(k) <= size =>
                                   got[Count(k)] = [addr |-> resp.records[k].addr, ttl |-> resp.records[k].ttl]
  BY DEF AnswerExact
<1>1. CASE phase \in Refused
  BY <1>1 DEF AnswerInv, Refused
<1>2. CASE phase = "done"
  <2>1. /\ ~resp.short /\ HeaderRight(resp.header) /\ QuestionDecodes(resp.question)
        /\ QuestionMatches(resp.question) /\ taken = Total(resp.header) /\ taken <= Len(resp.records)
        /\ \A k \in 1 .. taken : RecordDecodes(resp.records[k])
        /\ Collected(resp.header.ancount)
    BY <1>2 DEF AnswerInv, Started
  <2>2. Complete(resp)
    BY <2>1 DEF Complete, HeaderRight, Total
  <2> QED
    BY <1>2, <2>1, <2>2 DEF Collected, GotEntry
<1> QED
  BY <1>1, <1>2 DEF AnswerInv, Started, Reading

(* CachelessResolver takes exactly the answers that are right from header   *)
(* to last record, and of the addresses in them exactly the first wanted    *)
(* ones, in order (validate_response, process_server_answer_impl).          *)
THEOREM AnswersTakenExactly == AnswerSpec => []AnswerExact
<1>1. AnswerInit => AnswerInv
  BY AnswerInitInv
<1>2. AnswerInv /\ [AnswerNext]_answerVars => AnswerInv'
  <2> SUFFICES ASSUME AnswerInv, [AnswerNext]_answerVars PROVE AnswerInv'
    OBVIOUS
  <2>1. ASSUME NEW m \in Responses, NEW families \in Wants, NEW n \in Sizes, ReceiveMessage(m, families, n)
        PROVE  AnswerInv'
    BY <2>1, ReceiveMessageStep
  <2>2. CASE ValidateHeader
    BY <2>2, ValidateHeaderStep
  <2>3. CASE ValidateQuestion
    BY <2>3, ValidateQuestionStep
  <2>4. CASE RecordFails
    BY <2>4, RecordFailsStep
  <2>5. CASE ConsumeAnswer
    BY <2>5, ConsumeAnswerStep
  <2>6. CASE AnswersEnd
    BY <2>6, AnswersEndStep
  <2>7. CASE ConsumeRest
    BY <2>7, ConsumeRestStep
  <2>8. CASE Return
    BY <2>8, AnswerReturnStep
  <2>9. CASE UNCHANGED answerVars
    BY <2>9 DEF answerVars, AnswerInv, Collected, Count, Wanted, Complete, QuestionMatches, AskedType
  <2> QED
    BY <2>1, <2>2, <2>3, <2>4, <2>5, <2>6, <2>7, <2>8, <2>9 DEF AnswerNext
<1>3. AnswerInv => AnswerExact
  BY AnswerInvImplies
<1> QED
  BY <1>1, <1>2, <1>3, PTL DEF AnswerSpec

-----------------------------------------------------------------------------
(* Names in messages.  The parser and the iterator take the same way        *)
(* through a message; what the encoder writes is octets.                    *)

LEMMA NameLimits ==
  /\ MaxOctet \in Nat \ {0} /\ Mark \in Nat \ {0} /\ MaxLabel \in Nat \ {0} /\ MaxName \in Nat \ {0}
  /\ MaxLabel < Mark /\ Mark <= MaxOctet
<1>1. {MaxOctet, Mark, MaxLabel, MaxName} \subseteq Nat \ {0}
  BY DnsNameAssumption
<1> QED
  BY <1>1, DnsNameAssumption

(* An octet holds sums as it holds numbers. *)
LEMMA Uint8Sum ==
  ASSUME NEW a \in Nat, NEW b \in Nat
  PROVE  /\ Uint8(a) \in Nat /\ Uint8(Uint8(a) + b) = Uint8(a + b)
         /\ Uint8(0) = 0
<1> DEFINE u == MaxName + 1
           r == a % u
           q == a \div u
           s == (r + b) \div u
           t == (r + b) % u
<1>1. u \in Nat \ {0}
  BY NameLimits
<1> HIDE DEF u
<1>2. q \in Nat /\ r \in 0 .. u - 1 /\ a = u * q + r
  BY <1>1, Divided
<1> HIDE DEF q, r
<1>3. s \in Nat /\ t \in 0 .. u - 1 /\ r + b = u * s + t
  <2>1. r + b \in Nat
    BY <1>1, <1>2
  <2> QED
    BY <1>1, <2>1, Divided
<1> HIDE DEF s, t
<1>4. a + b = u * (q + s) + t /\ q + s \in Nat
  BY <1>1, <1>2, <1>3
<1>5. (a + b) % u = t
  <2> DEFINE x == q + s
  <2>1. x \in Nat /\ a + b = u * x + t
    BY <1>4
  <2> HIDE DEF x
  <2> QED
    BY <1>1, <1>3, <2>1, DivExact, ZenonT(60)
<1>6. 0 % u = 0
  <2>1. u * 0 + 0 = 0 /\ 0 \in 0 .. u - 1
    BY <1>1
  <2> QED
    BY <1>1, <2>1, DivExact
<1> QED
  BY <1>1, <1>2, <1>5, <1>6 DEF Uint8, r, t, u

(* A label of a name that is given to the encoder. *)
Strings == Seq(Octets \cup {Dot})

LEMMA LabelOctets ==
  ASSUME NEW string \in Strings, NEW i \in LabelStarts(string)
  PROVE  LabelAt(string, i) \in Seq(Octets)
<1> DEFINE sv == WithoutLastDot(string)
           L == Len(sv)
           e == LabelEnd(string, i)
<1>0. string \in Seq(Octets \cup {Dot})
  BY DEF Strings
<1>1. sv \in Seq(Octets \cup {Dot}) /\ L \in Nat /\ L <= Len(string) /\ \A k \in 1 .. L : sv[k] = string[k]
  <2>1. CASE string # <<>> /\ Last(string) = Dot
    <3>1. sv = SubSeq(string, 1, Len(string) - 1)
      BY <2>1 DEF WithoutLastDot, Front
    <3> HIDE DEF sv
    <3>2. Len(string) \in Nat \ {0}
      BY <1>0, <2>1
    <3> QED
      BY <1>0, <3>1, <3>2
  <2>2. CASE ~(string # <<>> /\ Last(string) = Dot)
    BY <1>0, <2>2 DEF WithoutLastDot
  <2> QED
    BY <2>1, <2>2
<1>2. i \in 1 .. L + 1
  <2>1. sv # <<>> /\ i \in {1} \cup {k + 1 : k \in {j \in DOMAIN sv : sv[j] = Dot}}
    BY DEF LabelStarts
  <2> HIDE DEF sv
  <2> QED
    BY <1>1, <2>1
<1> HIDE DEF sv, L
<1> DEFINE J == {j \in i - 1 .. L : j = L \/ sv[j + 1] = Dot}
<1>3. J \subseteq Nat /\ L \in J
  BY <1>1, <1>2
<1>4. PICK m \in J : \A j \in J : m <= j
  <2> HIDE DEF J
  <2> QED
    BY <1>3, LeastNat
<1>5. \A k \in i .. m : sv[k] # Dot
  <2> SUFFICES ASSUME NEW k \in i .. m, sv[k] = Dot PROVE FALSE
    OBVIOUS
  <2>1. k - 1 \in i - 1 .. L /\ sv[(k - 1) + 1] = Dot
    BY <1>1, <1>2, <1>4
  <2>2. k - 1 \in J
    BY <2>1
  <2>3. m \in Nat /\ k \in Int /\ k <= m
    BY <1>2, <1>3, <1>4
  <2> HIDE DEF J
  <2>4. m <= k - 1
    BY <1>4, <2>2
  <2> QED
    BY <2>3, <2>4
<1>6. e = CHOOSE j \in i - 1 .. L : /\ \A k \in i .. j : sv[k] # Dot
                                    /\ j = L \/ sv[j + 1] = Dot
  BY DEF LabelEnd, sv, L
<1>7. e \in i - 1 .. L /\ \A k \in i .. e : sv[k] # Dot
  <2>1. \E j \in i - 1 .. L : (\A k \in i .. j : sv[k] # Dot) /\ (j = L \/ sv[j + 1] = Dot)
    BY <1>4, <1>5
  <2> HIDE DEF e
  <2> QED
    BY <1>6, <2>1
<1> HIDE DEF e
<1>8. \A k \in i .. e : k \in 1 .. Len(string) /\ string[k] \in Octets
  <2> SUFFICES ASSUME NEW k \in i .. e PROVE k \in 1 .. Len(string) /\ string[k] \in Octets
    OBVIOUS
  <2>1. k \in 1 .. L /\ k \in 1 .. Len(string)
    BY <1>0, <1>1, <1>2, <1>7
  <2>2. string[k] \in Octets \cup {Dot} /\ string[k] # Dot
    BY <1>0, <1>1, <1>7, <2>1
  <2> QED
    BY <2>1, <2>2
<1>9. i \in Nat /\ i >= 1 /\ e \in Int /\ e <= Len(string) /\ i <= e + 1 /\ e \in Nat
  BY <1>0, <1>1, <1>2, <1>7
<1>10. SubSeq(string, i, e) \in Seq(Octets)
  <2>1. SubSeq(string, i, e) = [k \in 1 .. (1 + e - i) |-> string[i + k - 1]]
    BY <1>0, <1>9
  <2>2. \A k \in 1 .. (1 + e - i) : string[i + k - 1] \in Octets
    <3> SUFFICES ASSUME NEW k \in 1 .. (1 + e - i) PROVE string[i + k - 1] \in Octets
      OBVIOUS
    <3>1. i + k - 1 \in i .. e
      BY <1>9
    <3> QED
      BY <1>8, <3>1
  <2>3. 1 + e - i \in Nat
    BY <1>9
  <2> DEFINE n == 1 + e - i
             f == [k \in 1 .. n |-> string[i + k - 1]]
  <2>4. f \in [1 .. n -> Octets]
    BY <2>2
  <2> HIDE DEF f
  <2>5. f \in Seq(Octets)
    BY <2>3, <2>4
  <2> QED
    BY <2>1, <2>5 DEF f
<1> QED
  BY <1>10 DEF LabelAt, e

LEMMA PointerOctets ==
  ASSUME NEW offset \in 0 .. MaxPointer
  PROVE  Pointer(offset) \in Seq(Octets)
<1> DEFINE B == MaxOctet + 1
           q == offset \div B
           r == offset % B
           d == MaxOctet - Mark
<1>1. B \in Nat \ {0} /\ d \in Nat /\ d < B /\ offset \in Nat /\ offset <= d * B + MaxOctet
  BY NameLimits DEF MaxPointer
<1> HIDE DEF d
<1>a. B = MaxOctet + 1
  OBVIOUS
<1> HIDE DEF B
<1>2. q \in Nat /\ r \in 0 .. B - 1 /\ offset = B * q + r
  BY <1>1, Divided
<1> HIDE DEF q, r
<1>3. q <= d
  <2> SUFFICES ASSUME d < q PROVE FALSE
    BY <1>1, <1>2
  <2>1. PICK k \in Nat : q = d + 1 + k
    <3>1. q - d - 1 \in Nat /\ q = d + 1 + (q - d - 1)
      BY <1>1, <1>2
    <3> QED
      BY <3>1
  <2>2. B * q = d * B + B + B * k /\ B * k \in Nat /\ d * B \in Nat
    BY <1>1, <2>1
  <2> QED
    BY <1>1, <1>2, <1>a, <2>2, NameLimits
<1>4. Mark + q \in 0 .. MaxOctet /\ r \in 0 .. MaxOctet
  BY <1>1, <1>2, <1>3, <1>a, NameLimits DEF d
<1>5. Pointer(offset) = <<Mark + q, r>>
  BY DEF Pointer, q, r, B
<1> QED
  BY <1>4, <1>5 DEF Octets

LEMMA PointersNat == MaxPointer \in Nat /\ NoPointer \in Nat
<1>1. MaxOctet - Mark \in Nat /\ MaxOctet \in Nat
  BY NameLimits
<1>2. (MaxOctet - Mark) * (MaxOctet + 1) \in Nat
  BY <1>1
<1> QED
  BY <1>1, <1>2 DEF MaxPointer, NoPointer

(* The iterator's position, and the labels it has given so far. *)
Label == [from : Nat, size : Nat]
Positions == [pos : Nat, labels : Seq(Label)]
Parses == [start : Nat, pos : Nat, lim : Nat, first : Nat, firstPtr : BOOLEAN, consume : Nat, len : Nat,
           labels : Seq(Label)]

PointerAt(i) == i < Len(msg) /\ HasPointer(i, Len(msg))
LabelHere(i) == /\ i < Len(msg) /\ ~HasPointer(i, Len(msg))
                /\ Octet(i) \in 1 .. MaxLabel /\ i + Octet(i) + 1 <= Len(msg)

(* Where it goes from there, and the way from the start of a name. *)
GoesOn(x) == PointerAt(x.pos) \/ LabelHere(x.pos)
Onward(x) ==
  IF HasPointer(x.pos, Len(msg))
    THEN [pos |-> Target(x.pos), labels |-> x.labels]
    ELSE [pos |-> x.pos + Octet(x.pos) + 1,
          labels |-> Append(x.labels, [from |-> x.pos + 1, size |-> Octet(x.pos)])]
Way(path, i) ==
  /\ path \in Seq(Positions) /\ path # <<>>
  /\ path[1] = [pos |-> i, labels |-> <<>>]
  /\ \A k \in 1 .. Len(path) - 1 : GoesOn(path[k]) /\ path[k + 1] = Onward(path[k])

Within(labels) == \A k \in DOMAIN labels : labels[k].from + labels[k].size <= Len(msg)
InLine(i, j) == \E heads \in SUBSET (i .. j) : Heads(heads, i, j)

(* The decoder goes on behind the name where it stands. *)
Consumed(x) ==
  \E j \in x.start .. Len(msg) - 1 :
    /\ EndsInPlace(x.start, j)
    /\ InPlace(x.start, j) <= MaxName + 1
    /\ x.consume = Uint8(InPlace(x.start, j))

(* Before the first pointer the whole way is the name in place, behind it   *)
(* the rest is not.                                                         *)
Aligned(x) ==
  IF x.firstPtr
    THEN x.pos = x.start + x.len /\ x.consume = Uint8(x.len) /\ InLine(x.start, x.pos)
    ELSE \E j \in x.start .. Len(msg) - 1 :
           /\ InLine(x.start, j) /\ Octet(j) >= Mark
           /\ j - x.start <= x.len /\ x.consume = Uint8(j - x.start + 2)

(* parse_domain_name() has come its way label by label. *)
Parsing(x) ==
  /\ x.lim = Len(msg) /\ x.len <= MaxName
  /\ Within(x.labels) /\ Aligned(x)
  /\ \E path : Way(path, x.start) /\ path[Len(path)] = [pos |-> x.pos, labels |-> x.labels]

(* The iterator is somewhere on the way that was checked, to a root label.  *)
Walking(x, given) ==
  /\ Within(x.labels) /\ Consumed(x)
  /\ \E path : \E k \in 1 .. Len(path) :
       /\ Way(path, x.start)
       /\ path[Len(path)].labels = x.labels
       /\ path[Len(path)].pos < Len(msg) /\ Octet(path[Len(path)].pos) = 0
       /\ path[k] = [pos |-> x.pos, labels |-> given]

Walked(x, given) == given = x.labels /\ Within(x.labels) /\ Consumed(x)

NameInv ==
  /\ stage \in {"idle", "encode", "refused", "parse", "failed", "walk", "done"}
  /\ msg \in Seq(Octets) /\ starts \in Seq(Nat) /\ p \in Parses
  /\ \A n \in nodes : n.offset \in 0 .. MaxPointer
  /\ stage = "encode" => toEncode \in Seq(Strings) /\ Len(starts) \in 1 .. Len(toEncode)
  /\ stage \in {"idle", "encode"} => walked = <<>>
  /\ stage = "parse" => Parsing(p) /\ walked = <<>>
  /\ stage = "walk" => Walking(p, walked)
  /\ stage = "done" => Walked(p, walked)

LEMMA OctetType ==
  ASSUME msg \in Seq(Octets), NEW i \in Nat, i < Len(msg)
  PROVE  Octet(i) \in 0 .. MaxOctet /\ Octet(i) \in Nat
<1>1. MaxOctet \in Nat
  BY NameLimits
<1>2. i + 1 \in 1 .. Len(msg)
  OBVIOUS
<1>3. msg[i + 1] \in Octets
  BY <1>2
<1> QED
  BY <1>1, <1>3 DEF Octet, Octets

LEMMA TargetNat ==
  ASSUME msg \in Seq(Octets), NEW i \in Nat, PointerAt(i)
  PROVE  Target(i) \in Nat
<1>1. i + 1 \in Nat /\ i + 1 < Len(msg) /\ Octet(i) >= Mark
  BY DEF PointerAt, HasPointer
<1>2. Octet(i) \in Nat /\ Octet(i + 1) \in Nat
  BY <1>1, OctetType
<1>3. Octet(i) - Mark \in Nat /\ MaxOctet + 1 \in Nat
  BY <1>1, <1>2, NameLimits
<1>4. (Octet(i) - Mark) * (MaxOctet + 1) \in Nat
  BY <1>3
<1> QED
  BY <1>2, <1>4 DEF Target, Offset

LEMMA OnwardType ==
  ASSUME msg \in Seq(Octets), NEW x \in Positions, GoesOn(x)
  PROVE  Onward(x) \in Positions
<1>1. x.pos \in Nat /\ x.labels \in Seq(Label)
  BY DEF Positions
<1>2. CASE HasPointer(x.pos, Len(msg))
  <2>1. PointerAt(x.pos)
    BY <1>2 DEF GoesOn, LabelHere
  <2>2. Target(x.pos) \in Nat
    BY <1>1, <2>1, TargetNat
  <2> QED
    BY <1>1, <1>2, <2>2 DEF Onward, Positions
<1>3. CASE ~HasPointer(x.pos, Len(msg))
  <2>1. x.pos < Len(msg)
    BY <1>3 DEF GoesOn, PointerAt, LabelHere
  <2>2. Octet(x.pos) \in Nat
    BY <1>1, <2>1, OctetType
  <2>3. [from |-> x.pos + 1, size |-> Octet(x.pos)] \in Label
    BY <1>1, <2>2 DEF Label
  <2> QED
    BY <1>1, <1>3, <2>2, <2>3 DEF Onward, Positions
<1> QED
  BY <1>2, <1>3

(* The way goes on from its last position. *)
LEMMA WayOn ==
  ASSUME msg \in Seq(Octets), NEW path, NEW i, Way(path, i), GoesOn(path[Len(path)])
  PROVE  LET on == Append(path, Onward(path[Len(path)]))
         IN Way(on, i) /\ on[Len(on)] = Onward(path[Len(path)])
<1> DEFINE n == Len(path)
           y == Onward(path[n])
           on == Append(path, y)
<1>1. path \in Seq(Positions) /\ n \in Nat \ {0} /\ path[n] \in Positions
  BY DEF Way
<1>2. y \in Positions
  BY <1>1, OnwardType
<1> HIDE DEF y
<1>3. on \in Seq(Positions) /\ Len(on) = n + 1 /\ on[n + 1] = y /\ \A k \in 1 .. n : on[k] = path[k]
  BY <1>1, <1>2
<1> HIDE DEF on
<1>4. on # <<>> /\ on[1] = path[1]
  BY <1>1, <1>3
<1>5. ASSUME NEW k \in 1 .. Len(on) - 1 PROVE GoesOn(on[k]) /\ on[k + 1] = Onward(on[k])
  <2>1. CASE k = n
    BY <1>1, <1>3, <2>1 DEF y
  <2>2. CASE k # n
    <3>1. k \in 1 .. n - 1 /\ k \in 1 .. n /\ k + 1 \in 1 .. n
      BY <1>1, <1>3, <1>5, <2>2
    <3>2. GoesOn(path[k]) /\ path[k + 1] = Onward(path[k])
      BY <3>1 DEF Way
    <3> QED
      BY <1>3, <3>1, <3>2
  <2> QED
    BY <2>1, <2>2
<1>6. Way(on, i)
  BY <1>3, <1>4, <1>5 DEF Way
<1> QED
  BY <1>3, <1>6 DEF on, y

(* One more label in place. *)
LEMMA InLineOn ==
  ASSUME NEW i \in Nat, NEW j \in Nat, i <= j, InLine(i, j), Octet(j) \in 1 .. Mark - 1
  PROVE  InLine(i, j + Octet(j) + 1)
<1>1. PICK heads \in SUBSET (i .. j) : Heads(heads, i, j)
  BY DEF InLine
<1> DEFINE o == Octet(j)
           k == j + o + 1
           more == heads \cup {k}
<1>2. k \in Nat /\ j < k
  BY NameLimits
<1>3. more \in SUBSET (i .. k)
  <2>1. k \in i .. k /\ i .. j \subseteq i .. k
    BY <1>2
  <2> HIDE DEF k
  <2> QED
    BY <1>1, <2>1
<1>4. k \notin heads
  BY <1>1, <1>2
<1>5. Heads(more, i, k)
  <2>1. {i, k} \subseteq more
    BY <1>1 DEF Heads
  <2>2. ASSUME NEW l \in more \ {k} PROVE Octet(l) \in 1 .. Mark - 1 /\ l + Octet(l) + 1 \in more
    BY <1>1, <1>4, <2>2 DEF Heads
  <2> QED
    BY <2>1, <2>2 DEF Heads
<1> QED
  BY <1>3, <1>5 DEF InLine

LEMMA InLineStart == ASSUME NEW i \in Nat PROVE InLine(i, i)
<1>1. {i} \in SUBSET (i .. i) /\ Heads({i}, i, i)
  BY DEF Heads
<1> QED
  BY <1>1 DEF InLine

(* Reading begins. *)
Begun(x, i, n) ==
  /\ x.start = i /\ x.pos = i /\ x.lim = n /\ x.firstPtr = TRUE /\ x.consume = 0 /\ x.len = 0
  /\ x.labels = <<>>

LEMMA ParseFromFields ==
  ASSUME NEW i \in Nat, NEW n \in Nat
  PROVE  ParseFrom(i, n) \in Parses /\ Begun(ParseFrom(i, n), i, n)
<1>1. PICK e : e = <<>>
  OBVIOUS
<1>2. e \in Seq(Label)
  BY <1>1
<1> DEFINE x == [start |-> i, pos |-> i, lim |-> n, first |-> NoPointer, firstPtr |-> TRUE,
                    consume |-> 0, len |-> 0, labels |-> e]
<1>3. ParseFrom(i, n) = x
  BY <1>1, Zenon DEF ParseFrom
<1>4. x \in Parses
  BY <1>2, PointersNat DEF Parses
<1> QED
  BY <1>1, <1>3, <1>4 DEF Begun

LEMMA ParseStarts ==
  ASSUME NEW i \in Nat, NEW n \in Nat, p' = ParseFrom(i, n), n = Len(msg')
  PROVE  p' \in Parses /\ Parsing(p)'
<1> DEFINE x == [pos |-> i, labels |-> <<>>]
           path == <<x>>
<1>0. n \in Nat /\ n = Len(msg)'
  OBVIOUS
<1>2. <<>> \in Seq(Label)
  OBVIOUS
<1>3. /\ p' \in Parses
      /\ p'.start = i /\ p'.pos = i /\ p'.lim = n /\ p'.firstPtr = TRUE /\ p'.consume = 0 /\ p'.len = 0
      /\ p'.labels = <<>>
  <2>1. p' \in Parses /\ Begun(p', i, n)
    BY ParseFromFields
  <2> QED
    BY <2>1 DEF Begun
<1>4. path \in Seq(Positions) /\ path # <<>> /\ Len(path) = 1 /\ path[1] = x
  BY <1>2 DEF Positions
<1> HIDE DEF path
<1>5. Way(path, i)'
  BY <1>4 DEF Way
<1>7. (\E way : Way(way, p.start) /\ way[Len(way)] = [pos |-> p.pos, labels |-> p.labels])'
  <2>1. Way(path, p.start)' /\ path[Len(path)] = [pos |-> p'.pos, labels |-> p'.labels]
    BY <1>4, <1>5, <1>3 DEF Way
  <2> QED
    BY <2>1
<1>8. {i} \in SUBSET (i .. i) /\ Heads({i}, i, i)'
  BY DEF Heads
<1>9. Uint8(0) = 0 /\ 0 <= MaxName
  BY Uint8Sum, NameLimits
<1>10. InLine(p.start, p.pos)'
  <2>1. InLine(i, i)'
    BY <1>8 DEF InLine
  <2> QED
    BY <1>3, <2>1 DEF InLine, Heads
<1>11. Within(p.labels)'
  BY <1>3 DEF Within
<1> QED
  BY <1>0, <1>3, <1>7, <1>9, <1>10, <1>11 DEF Parsing, Aligned

LEMMA NameInitInv == NameInit => NameInv
<1>1. <<>> \in Seq(Octets) /\ <<>> \in Seq(Nat)
  OBVIOUS
<1>2. ParseFrom(0, 0) \in Parses
  BY ParseFromFields
<1> QED
  BY <1>1, <1>2 DEF NameInit, NameInv

LEMMA EncodeStep ==
  ASSUME NameInv, NEW list \in NameLists, stage = "idle", Encode(list)
  PROVE  NameInv'
<1>1. list \in Seq(Strings) /\ list # <<>>
  BY DnsNameAssumption DEF Strings
<1>2. /\ stage' = "encode" /\ toEncode' = list /\ starts' = <<0>> /\ UNCHANGED <<at, nodes, msg, p, walked>>
  BY DEF Encode
<1>3. starts' \in Seq(Nat) /\ Len(starts') = 1 /\ 1 \in 1 .. Len(list)
  BY <1>1, <1>2
<1> QED
  BY <1>1, <1>2, <1>3 DEF NameInv

LEMMA ParseStep ==
  ASSUME NameInv, NEW m \in Messages, NEW i \in Starts, stage = "idle", Parse(m, i)
  PROVE  NameInv'
<1>1. m \in Seq(Octets) /\ i \in Nat
  BY DnsNameAssumption
<1>2. /\ stage' = "parse" /\ msg' = m /\ UNCHANGED <<toEncode, at, nodes, starts, walked>>
      /\ p' = ParseFrom(i, Len(m)) /\ walked = <<>>
  BY DEF Parse, NameInv
<1>3. p' = ParseFrom(i, Len(m)) /\ walked' = <<>> /\ Len(m) \in Nat /\ Len(m) = Len(msg')
  BY <1>1, <1>2
<1>4. p' \in Parses /\ Parsing(p)'
  BY <1>1, <1>3, ParseStarts
<1> QED
  BY <1>1, <1>2, <1>4 DEF NameInv

(* The writing of a name ends: with a pointer or a root label. *)
LEMMA NameWrittenStep ==
  ASSUME NameInv, stage = "encode", NEW octets \in Seq(Octets), NameWritten(octets),
         UNCHANGED <<toEncode, nodes, walked>>
  PROVE  NameInv'
<1>1. /\ msg \in Seq(Octets) /\ starts \in Seq(Nat) /\ p \in Parses /\ walked = <<>>
      /\ toEncode \in Seq(Strings) /\ Len(starts) \in 1 .. Len(toEncode)
  BY DEF NameInv
<1>2. msg' = msg \o octets
  BY DEF NameWritten
<1>3. msg' \in Seq(Octets) /\ Len(msg') \in Nat
  BY <1>1, <1>2
<1>4. CASE Len(starts) < Len(toEncode)
  <2>1. starts' = Append(starts, Len(msg')) /\ UNCHANGED <<stage, p>>
    BY <1>4 DEF NameWritten
  <2>2. starts' \in Seq(Nat) /\ Len(starts') \in 1 .. Len(toEncode)
    <3> DEFINE n == Len(msg')
    <3>1. starts' = Append(starts, n) /\ n \in Nat
      BY <1>3, <2>1
    <3> HIDE DEF n
    <3> QED
      BY <1>1, <1>4, <3>1
  <2> QED
    BY <1>1, <1>3, <2>1, <2>2 DEF NameInv
<1>5. CASE ~(Len(starts) < Len(toEncode))
  <2>1. stage' = "parse" /\ p' = ParseFrom(0, Len(msg')) /\ starts' = starts
    BY <1>5 DEF NameWritten
  <2>3. p' \in Parses /\ Parsing(p)'
    BY <1>1, <1>3, <2>1, ParseStarts
  <2> QED
    BY <1>1, <1>3, <2>1, <2>3 DEF NameInv
<1> QED
  BY <1>4, <1>5

LEMMA WritePointerStep ==
  ASSUME NameInv, WritePointer
  PROVE  NameInv'
<1>1. PICK n \in FoundNodes : NameWritten(Pointer(n.offset))
  BY DEF WritePointer
<1>2. n.offset \in 0 .. MaxPointer
  BY DEF NameInv, FoundNodes
<1>3. Pointer(n.offset) \in Seq(Octets)
  BY <1>2, PointerOctets
<1>4. stage = "encode" /\ UNCHANGED <<toEncode, nodes, walked>>
  BY DEF WritePointer, Writable
<1> QED
  BY <1>1, <1>3, <1>4, NameWrittenStep

LEMMA WriteRootStep ==
  ASSUME NameInv, WriteRoot
  PROVE  NameInv'
<1>1. <<0>> \in Seq(Octets)
  BY NameLimits DEF Octets
<1>2. stage = "encode" /\ NameWritten(<<0>>) /\ UNCHANGED <<toEncode, nodes, walked>>
  BY DEF WriteRoot
<1> QED
  BY <1>1, <1>2, NameWrittenStep

LEMMA WriteLabelStep ==
  ASSUME NameInv, WriteLabel
  PROVE  NameInv'
<1> DEFINE piece == LabelAt(Name, at)
<1>1. /\ msg \in Seq(Octets) /\ toEncode \in Seq(Strings) /\ Len(starts) \in 1 .. Len(toEncode) /\ stage = "encode"
      /\ at \in LabelStarts(Name) /\ Len(piece) \in 1 .. MaxLabel /\ msg' = msg \o <<Len(piece)>> \o piece
      /\ UNCHANGED <<stage, toEncode, starts, p, walked>>
  BY DEF NameInv, WriteLabel, Writable
<1>2. Name \in Strings
  BY <1>1 DEF Name
<1>3. piece \in Seq(Octets)
  BY <1>1, <1>2, LabelOctets
<1> HIDE DEF piece
<1>4. msg' \in Seq(Octets)
  <2>1. Len(piece) \in Octets
    BY <1>1, NameLimits DEF Octets
  <2>2. <<Len(piece)>> \in Seq(Octets)
    BY <2>1
  <2> QED
    BY <1>1, <1>3, <2>2
<1>5. \A n \in nodes' : n.offset \in 0 .. MaxPointer
  <2>1. CASE nodes' = nodes
    BY <2>1 DEF NameInv
  <2>2. CASE /\ Len(msg) <= MaxPointer
             /\ nodes' = nodes \cup {[str |-> Remaining(Name, at), offset |-> Len(msg)]}
    <3>1. Len(msg) \in 0 .. MaxPointer
      BY <1>1, <2>2, PointersNat
    <3> QED
      BY <2>2, <3>1 DEF NameInv
  <2> QED
    BY <2>1, <2>2 DEF WriteLabel
<1> QED
  BY <1>1, <1>4, <1>5 DEF NameInv

(* Reading or writing is given up. *)
LEMMA GiveUpStep ==
  ASSUME NameInv, stage' \in {"failed", "refused"}, UNCHANGED <<toEncode, at, nodes, starts, msg, p, walked>>
  PROVE  NameInv'
  BY DEF NameInv

(* While the message stays, what is known of it stays. *)
LEMMA SameMessage ==
  ASSUME msg' = msg, NEW x, NEW given
  PROVE  /\ Parsing(x) => Parsing(x)'
         /\ Walking(x, given) => Walking(x, given)'
         /\ Walked(x, given) => Walked(x, given)'
<1>1. \A i \in Int : Octet(i) = Octet(i)'
  BY DEF Octet
<1> QED
  BY SMTT(30) DEF Parsing, Walking, Walked, Aligned, Within, Consumed, EndsInPlace, InPlace, InLine, Heads, Way,
         GoesOn, Onward, PointerAt, LabelHere, HasPointer, Target, Octet

(* A turn of the parser leads on from where it is. *)
LEMMA ParserLeadsOn ==
  ASSUME NameInv, stage = "parse", GoesOn([pos |-> p.pos, labels |-> p.labels])
  PROVE  \E path : /\ Way(path, p.start)
                   /\ path[Len(path)] = Onward([pos |-> p.pos, labels |-> p.labels])
<1>1. msg \in Seq(Octets) /\ Parsing(p)
  BY DEF NameInv
<1>2. PICK path : Way(path, p.start) /\ path[Len(path)] = [pos |-> p.pos, labels |-> p.labels]
  BY <1>1 DEF Parsing
<1> DEFINE on == Append(path, Onward(path[Len(path)]))
<1>3. Way(on, p.start) /\ on[Len(on)] = Onward(path[Len(path)])
  BY <1>1, <1>2, WayOn
<1> HIDE DEF on
<1> QED
  BY <1>2, <1>3

LEMMA FollowPointerStep ==
  ASSUME NameInv, FollowPointer
  PROVE  NameInv'
<1> DEFINE i == p.pos
           t == Target(i)
<1>1. /\ msg \in Seq(Octets) /\ p \in Parses /\ Parsing(p) /\ walked = <<>> /\ stage = "parse"
      /\ i < p.lim /\ HasPointer(i, p.lim) /\ t <= Len(msg) - 1 /\ p' = Jump(t)
      /\ UNCHANGED <<stage, toEncode, at, nodes, starts, msg, walked>>
  BY DEF NameInv, FollowPointer
<1>2. p.lim = Len(msg) /\ p.len <= MaxName /\ Within(p.labels) /\ Aligned(p)
  BY <1>1 DEF Parsing
<1>3. i \in Nat /\ PointerAt(i) /\ Octet(i) >= Mark /\ i < Len(msg) /\ p.start \in Nat /\ p.len \in Nat
  BY <1>1, <1>2 DEF Parses, PointerAt, HasPointer
<1>4. t \in Nat
  BY <1>1, <1>3, TargetNat
<1> DEFINE x == [pos |-> i, labels |-> p.labels]
<1>5. GoesOn(x) /\ Onward(x) = [pos |-> t, labels |-> p.labels]
  BY <1>1, <1>2, <1>3 DEF GoesOn, Onward
<1>6. PICK path : Way(path, p.start) /\ path[Len(path)] = [pos |-> t, labels |-> p.labels]
  BY <1>1, <1>5, ParserLeadsOn
<1>7. PICK q : q = p'
  OBVIOUS
<1> HIDE DEF t, x
<1>8. /\ q \in Parses /\ q.start = p.start /\ q.pos = t /\ q.lim = Len(msg) /\ ~q.firstPtr
      /\ q.len = p.len /\ q.labels = p.labels
      /\ q.consume = IF p.firstPtr THEN Uint8(p.consume + 2) ELSE p.consume
  <2>1. CASE p.firstPtr
    <3>1. q = [p EXCEPT !.pos = t, !.lim = Len(msg), !.consume = Uint8(@ + 2), !.first = t,
                        !.firstPtr = FALSE]
      BY <1>1, <1>7, <2>1 DEF Jump
    <3>2. Uint8(p.consume + 2) \in Nat /\ Len(msg) \in Nat
      <4>1. p.consume + 2 \in Nat /\ Len(msg) \in Nat
        BY <1>1 DEF Parses
      <4> QED
        BY <4>1, Uint8Sum
    <3> QED
      BY <1>1, <1>4, <2>1, <3>1, <3>2 DEF Parses
  <2>2. CASE ~p.firstPtr
    <3>1. q = [p EXCEPT !.pos = t, !.lim = Len(msg)]
      BY <1>1, <1>7, <2>2 DEF Jump
    <3>2. Len(msg) \in Nat
      BY <1>1
    <3> QED
      BY <1>1, <1>4, <2>2, <3>1, <3>2 DEF Parses
  <2> QED
    BY <2>1, <2>2
<1>9. Aligned(q)
  <2>1. CASE p.firstPtr
    <3>1. i = p.start + p.len /\ p.consume = Uint8(p.len) /\ InLine(p.start, i)
      BY <1>2, <2>1 DEF Aligned
    <3>2. Uint8(p.consume + 2) = Uint8(p.len + 2) /\ i - p.start = p.len
      <4>1. Uint8(Uint8(p.len) + 2) = Uint8(p.len + 2)
        BY <1>3, Uint8Sum
      <4> QED
        BY <1>3, <3>1, <4>1
    <3>3. i \in p.start .. Len(msg) - 1 /\ q.consume = Uint8(i - p.start + 2)
      BY <1>1, <1>3, <1>8, <2>1, <3>1, <3>2
    <3> QED
      <4>1. InLine(q.start, i) /\ i - q.start <= q.len /\ q.consume = Uint8(i - q.start + 2)
            /\ i \in q.start .. Len(msg) - 1
        BY <1>3, <1>8, <3>1, <3>2, <3>3
      <4> QED
        BY <1>3, <1>8, <4>1 DEF Aligned
  <2>2. CASE ~p.firstPtr
    BY <1>2, <1>8, <2>2 DEF Aligned
  <2> QED
    BY <2>1, <2>2
<1>10. Parsing(q)
  BY <1>2, <1>6, <1>8, <1>9 DEF Parsing
<1>11. Parsing(q)'
  BY <1>1, <1>10, SameMessage
<1>12. Parsing(p)' /\ p' \in Parses
  BY <1>7, <1>8, <1>11
<1> QED
  BY <1>1, <1>12 DEF NameInv

(* What a label that is taken makes of the octets counted so far. *)
LEMMA LabelCounted ==
  ASSUME NEW x \in Parses, NEW span \in Nat, x.firstPtr, Aligned(x)
  PROVE  Uint8(x.consume + span) = Uint8(x.len + span)
<1>1. x.consume = Uint8(x.len) /\ x.len \in Nat
  BY DEF Aligned, Parses
<1>2. Uint8(Uint8(x.len) + span) = Uint8(x.len + span)
  BY <1>1, Uint8Sum
<1> QED
  BY <1>1, <1>2

LEMMA TakeLabelStep ==
  ASSUME NameInv, TakeLabel
  PROVE  NameInv'
<1> DEFINE i == p.pos
           o == Octet(i)
           span == o + 1
           c == IF p.firstPtr THEN Uint8(p.consume + span) ELSE p.consume
           l == NameLen
           one == [from |-> i + 1, size |-> o]
<1>1. /\ msg \in Seq(Octets) /\ p \in Parses /\ Parsing(p) /\ walked = <<>> /\ stage = "parse"
      /\ i < p.lim /\ ~HasPointer(i, p.lim) /\ o <= MaxLabel /\ p.lim - i >= o + 1 /\ l <= MaxName
      /\ UNCHANGED <<toEncode, at, nodes, starts, msg, walked>>
  BY DEF NameInv, TakeLabel, AtLabel, LabelDecodes
<1>2. p.lim = Len(msg) /\ p.len <= MaxName /\ Within(p.labels) /\ Aligned(p)
  BY <1>1 DEF Parsing
<1>3. /\ i \in Nat /\ i < Len(msg) /\ p.start \in Nat /\ p.len \in Nat /\ p.consume \in Nat /\ Len(msg) \in Nat
      /\ p.labels \in Seq(Label) /\ p.lim \in Nat
  BY <1>1, <1>2 DEF Parses
<1>4. o \in Nat /\ span \in Nat /\ l = p.len + span /\ l \in Nat
  <2>1. o \in Nat
    BY <1>1, <1>3, OctetType
  <2> QED
    BY <1>3, <2>1, SMTT(30) DEF NameLen
<1>5. c \in Nat /\ (p.firstPtr => c = Uint8(l)) /\ (~p.firstPtr => c = p.consume)
  <2>1. CASE p.firstPtr
    <3>1. Uint8(p.consume + span) = Uint8(p.len + span)
      BY <1>1, <1>2, <1>4, <2>1, LabelCounted
    <3>2. Uint8(l) \in Nat
      BY <1>4, Uint8Sum
    <3> QED
      BY <1>4, <2>1, <3>1, <3>2
  <2>2. CASE ~p.firstPtr
    BY <1>3, <2>2
  <2> QED
    BY <2>1, <2>2
<1>6. PICK q : q = p'
  OBVIOUS
<1>7. \/ /\ o # 0 /\ stage' = "parse"
         /\ q = [p EXCEPT !.pos = i + span, !.first = NoPointer, !.consume = c, !.len = l,
                          !.labels = Append(p.labels, one)]
      \/ /\ o = 0 /\ stage' = "walk"
         /\ q = [p EXCEPT !.pos = p.start, !.consume = c, !.len = l]
  BY <1>1, <1>6 DEF TakeLabel
<1> HIDE DEF c, l
<1>8. CASE o # 0
  <2>1. one \in Label /\ Append(p.labels, one) \in Seq(Label)
    BY <1>3, <1>4 DEF Label
  <2> DEFINE more == Append(p.labels, one)
  <2>2. q = [p EXCEPT !.pos = i + span, !.first = NoPointer, !.consume = c, !.len = l, !.labels = more]
    BY <1>7, <1>8
  <2>3. more \in Seq(Label) /\ i + span \in Nat
    BY <1>3, <1>4, <2>1, SMTT(30)
  <2> HIDE DEF more, one, span
  <2>4. /\ q \in Parses /\ q.start = p.start /\ q.pos = i + span /\ q.lim = Len(msg)
        /\ q.firstPtr = p.firstPtr /\ q.len = l /\ q.labels = more /\ q.consume = c
    BY <1>1, <1>2, <1>4, <1>5, <2>2, <2>3, PointersNat DEF Parses
  <2>5. o \in 1 .. Mark - 1 /\ o \in 1 .. MaxLabel /\ i + o + 1 <= Len(msg)
    <3>1. o \in Nat \ {0} /\ o <= MaxLabel /\ Len(msg) - i >= o + 1
      BY <1>1, <1>2, <1>4, <1>8
    <3> HIDE DEF o
    <3>2. o \in 1 .. Mark - 1 /\ o \in 1 .. MaxLabel
      BY <3>1, NameLimits
    <3>3. i + o + 1 <= Len(msg)
      BY <1>3, <3>1
    <3> QED
      BY <3>2, <3>3
  <2> DEFINE x == [pos |-> i, labels |-> p.labels]
  <2>6. GoesOn(x) /\ Onward(x) = [pos |-> i + span, labels |-> more]
    <3>1. LabelHere(i) /\ ~HasPointer(i, Len(msg))
      BY <1>1, <1>2, <1>3, <2>5 DEF LabelHere
    <3>2. i + span = i + o + 1
      BY <1>3, <1>4, SMTT(30) DEF span
    <3> QED
      BY <3>1, <3>2 DEF GoesOn, Onward, more, one
  <2>7. PICK path : Way(path, p.start) /\ path[Len(path)] = [pos |-> i + span, labels |-> more]
    <3> HIDE DEF x
    <3>1. GoesOn([pos |-> p.pos, labels |-> p.labels])
      BY <2>6 DEF x
    <3> QED
      BY <1>1, <2>6, <3>1, ParserLeadsOn DEF x
  <2>8. Within(more)
    <3>1. Len(more) = Len(p.labels) + 1 /\ more[Len(more)] = one
          /\ \A k \in 1 .. Len(p.labels) : more[k] = p.labels[k]
      BY <1>3, <2>1 DEF more
    <3>2. one.from + one.size <= Len(msg)
      BY <1>3, <1>4, <2>5 DEF one
    <3>3. DOMAIN more = 1 .. Len(p.labels) + 1 /\ DOMAIN p.labels = 1 .. Len(p.labels) /\ Len(p.labels) \in Nat
      BY <1>3, <2>3, <3>1
    <3> SUFFICES ASSUME NEW k \in DOMAIN more PROVE more[k].from + more[k].size <= Len(msg)
      BY DEF Within
    <3>4. CASE k = Len(more)
      BY <3>1, <3>2, <3>4
    <3>5. CASE k # Len(more)
      <4>1. k \in 1 .. Len(p.labels)
        BY <3>1, <3>3, <3>5
      <4>2. p.labels[k].from + p.labels[k].size <= Len(msg)
        BY <1>2, <3>3, <4>1 DEF Within
      <4> QED
        BY <3>1, <4>1, <4>2
    <3> QED
      BY <3>4, <3>5
  <2>9. Aligned(q)
    <3>1. CASE p.firstPtr
      <4>1. i = p.start + p.len /\ InLine(p.start, i)
        BY <1>2, <3>1 DEF Aligned
      <4>2. InLine(p.start, i + o + 1) /\ i + o + 1 = i + span /\ i + span = p.start + l
        <5>1. p.start <= i
          BY <1>3, <4>1
        <5>2. InLine(p.start, i + Octet(i) + 1)
          BY <1>3, <2>5, <4>1, <5>1, InLineOn
        <5>3. i + o + 1 = i + span /\ i + span = p.start + l
          <6>1. span = o + 1 /\ o \in Nat
            BY <1>4 DEF span
          <6>2. l = p.len + span /\ i \in Nat /\ p.start \in Nat /\ p.len \in Nat /\ span \in Nat
            BY <1>3, <1>4
          <6>3. i = p.start + p.len
            BY <4>1
          <6> HIDE DEF o, i
          <6>4. i + o + 1 = i + span
            BY <6>1, <6>2
          <6>5. i + span = p.start + l
            BY <6>2, <6>3
          <6> QED
            BY <6>4, <6>5
        <5> QED
          BY <5>2, <5>3
      <4>3. q.pos = q.start + q.len /\ q.consume = Uint8(q.len) /\ InLine(q.start, q.pos) /\ q.firstPtr
        BY <1>5, <2>4, <3>1, <4>2
      <4> QED
        BY <4>3 DEF Aligned
    <3>2. CASE ~p.firstPtr
      <4>1. PICK j \in p.start .. Len(msg) - 1 :
              /\ InLine(p.start, j) /\ Octet(j) >= Mark
              /\ j - p.start <= p.len /\ p.consume = Uint8(j - p.start + 2)
        BY <1>2, <3>2 DEF Aligned
      <4>2. j - p.start <= l
        BY <1>3, <1>4, <4>1, SMTT(30) DEF span
      <4>3. /\ j \in q.start .. Len(msg) - 1 /\ InLine(q.start, j) /\ j - q.start <= q.len /\ ~q.firstPtr
            /\ q.consume = Uint8(j - q.start + 2)
        BY <1>5, <2>4, <3>2, <4>1, <4>2
      <4> QED
        BY <4>1, <4>3 DEF Aligned
    <3> QED
      BY <3>1, <3>2
  <2>10. Parsing(q)
    BY <1>1, <2>4, <2>7, <2>8, <2>9 DEF Parsing
  <2>11. Parsing(q)'
    BY <1>1, <2>10, SameMessage
  <2>12. Parsing(p)' /\ p' \in Parses
    BY <1>6, <2>4, <2>11
  <2> QED
    BY <1>1, <1>7, <1>8, <2>12 DEF NameInv
<1>9. CASE o = 0
  <2>1. q = [p EXCEPT !.pos = p.start, !.consume = c, !.len = l]
    BY <1>7, <1>9
  <2>2. l = p.len + 1
    BY <1>3, <1>4, <1>9
  <2> HIDE DEF span, one
  <2>3. /\ q \in Parses /\ q.start = p.start /\ q.pos = p.start /\ q.consume = c /\ q.labels = p.labels
    BY <1>1, <1>3, <1>4, <1>5, <2>1 DEF Parses
  <2>4. Consumed(q)
    <3>1. CASE p.firstPtr
      <4>1. i = p.start + p.len /\ InLine(p.start, i)
        BY <1>2, <3>1 DEF Aligned
      <4>2. i \in p.start .. Len(msg) - 1 /\ InPlace(p.start, i) = l
        BY <1>3, <1>9, <2>2, <4>1 DEF InPlace
      <4>3. EndsInPlace(p.start, i) /\ InPlace(p.start, i) <= MaxName + 1 /\ c = Uint8(InPlace(p.start, i))
        BY <1>1, <1>4, <1>5, <1>9, <3>1, <4>1, <4>2, NameLimits DEF EndsInPlace, InLine
      <4> QED
        BY <2>3, <4>2, <4>3 DEF Consumed
    <3>2. CASE ~p.firstPtr
      <4>1. PICK j \in p.start .. Len(msg) - 1 :
              /\ InLine(p.start, j) /\ Octet(j) >= Mark
              /\ j - p.start <= p.len /\ p.consume = Uint8(j - p.start + 2)
        BY <1>2, <3>2 DEF Aligned
      <4>2. Octet(j) # 0 /\ j \in Int
        BY <1>3, <4>1, NameLimits
      <4>3. InPlace(p.start, j) = j - p.start + 2
        BY <4>2 DEF InPlace
      <4>4. InPlace(p.start, j) <= MaxName + 1
        BY <1>1, <1>3, <2>2, <4>1, <4>2, <4>3, NameLimits, SMTT(30)
      <4>5. EndsInPlace(p.start, j) /\ c = Uint8(InPlace(p.start, j))
        BY <1>5, <3>2, <4>1, <4>3 DEF EndsInPlace, InLine
      <4> QED
        BY <2>3, <4>1, <4>4, <4>5 DEF Consumed
    <3> QED
      BY <3>1, <3>2
  <2>5. PICK path : Way(path, p.start) /\ path[Len(path)] = [pos |-> i, labels |-> p.labels]
    BY <1>1 DEF Parsing
  <2>6. path[1] = [pos |-> p.start, labels |-> <<>>] /\ 1 \in 1 .. Len(path)
    BY <2>5 DEF Way
  <2>7. Walking(q, walked)
    <3>1. /\ 1 \in 1 .. Len(path) /\ Way(path, q.start) /\ path[Len(path)].labels = q.labels
          /\ path[Len(path)].pos < Len(msg) /\ Octet(path[Len(path)].pos) = 0
          /\ path[1] = [pos |-> q.pos, labels |-> walked]
      BY <1>1, <1>3, <1>9, <2>3, <2>5, <2>6
    <3>2. Within(q.labels)
      BY <1>2, <2>3
    <3> QED
      BY <2>4, <3>1, <3>2 DEF Walking
  <2>8. PICK given : given = walked
    OBVIOUS
  <2>9. Walking(q, given)'
    BY <1>1, <2>7, <2>8, SameMessage
  <2>10. Walking(p, walked)' /\ p' \in Parses
    BY <1>1, <1>6, <2>3, <2>8, <2>9
  <2> QED
    BY <1>1, <1>7, <1>9, <2>10 DEF NameInv
<1> QED
  BY <1>8, <1>9

(* Where the iterator is, and what it does there. *)
OnTheWay(path, k) ==
  /\ k \in 1 .. Len(path)
  /\ Way(path, p.start)
  /\ path[Len(path)].labels = p.labels
  /\ path[Len(path)].pos < Len(msg) /\ Octet(path[Len(path)].pos) = 0
  /\ path[k] = [pos |-> p.pos, labels |-> walked]

LEMMA IteratorThere ==
  ASSUME NameInv, NEW path, NEW k, OnTheWay(path, k)
  PROVE  /\ p.pos \in Nat /\ p.pos < Len(msg) /\ Octet(p.pos) \in Nat /\ k \in Nat /\ Len(path) \in Nat
         /\ walked \in Seq(Label)
         /\ \/ k = Len(path) /\ Octet(p.pos) = 0 /\ walked = p.labels
            \/ /\ k + 1 \in 1 .. Len(path)
               /\ PointerAt(p.pos) \/ LabelHere(p.pos)
               /\ path[k + 1] = Onward([pos |-> p.pos, labels |-> walked])
<1>1. msg \in Seq(Octets) /\ path \in Seq(Positions) /\ k \in 1 .. Len(path) /\ Len(path) \in Nat
  BY DEF NameInv, OnTheWay, Way
<1> DEFINE x == [pos |-> p.pos, labels |-> walked]
<1>2. path[k] = x /\ path[k] \in Positions
  BY <1>1 DEF OnTheWay
<1>3. p.pos \in Nat /\ walked \in Seq(Label) /\ x.pos = p.pos /\ x.labels = walked
  BY <1>2 DEF Positions
<1> HIDE DEF x
<1>4. CASE k = Len(path)
  <2>1. p.pos < Len(msg) /\ Octet(p.pos) = 0 /\ walked = p.labels
    BY <1>2, <1>3, <1>4 DEF OnTheWay
  <2> QED
    BY <1>1, <1>3, <1>4, <2>1
<1>5. CASE k # Len(path)
  <2>1. k \in 1 .. Len(path) - 1 /\ k + 1 \in 1 .. Len(path)
    BY <1>1, <1>5
  <2>2. GoesOn(path[k]) /\ path[k + 1] = Onward(path[k])
    BY <2>1 DEF OnTheWay, Way
  <2>3. PointerAt(p.pos) \/ LabelHere(p.pos)
    BY <1>2, <1>3, <2>2 DEF GoesOn
  <2>4. p.pos < Len(msg)
    BY <2>3 DEF PointerAt, LabelHere
  <2>5. Octet(p.pos) \in Nat
    BY <1>1, <1>3, <2>4, OctetType
  <2> QED
    BY <1>1, <1>2, <1>3, <2>1, <2>2, <2>3, <2>4, <2>5 DEF x
<1> QED
  BY <1>4, <1>5

LEMMA WalkPointerStep ==
  ASSUME NameInv, WalkPointer
  PROVE  NameInv'
<1>1. /\ msg \in Seq(Octets) /\ p \in Parses /\ Walking(p, walked) /\ stage = "walk"
      /\ UNCHANGED <<stage, toEncode, at, nodes, starts, msg, walked>>
  BY DEF NameInv, WalkPointer
<1>2. PICK high \in Ahead(p.pos), low \in Ahead(p.pos + 1) :
        high >= Mark /\ p' = [p EXCEPT !.pos = Offset(high, low)]
  BY DEF WalkPointer
<1>3. PICK path, k : OnTheWay(path, k)
  BY <1>1 DEF Walking, OnTheWay
<1>4. /\ p.pos \in Nat /\ p.pos < Len(msg) /\ Octet(p.pos) \in Nat
      /\ \/ k = Len(path) /\ Octet(p.pos) = 0 /\ walked = p.labels
         \/ /\ k + 1 \in 1 .. Len(path)
            /\ PointerAt(p.pos) \/ LabelHere(p.pos)
            /\ path[k + 1] = Onward([pos |-> p.pos, labels |-> walked])
  BY <1>3, IteratorThere
<1>5. high = Octet(p.pos)
  BY <1>2, <1>4 DEF Ahead
<1>6. Octet(p.pos) # 0 /\ Octet(p.pos) \notin 1 .. MaxLabel
  BY <1>2, <1>4, <1>5, NameLimits
<1>7. PointerAt(p.pos) /\ k + 1 \in 1 .. Len(path) /\ path[k + 1] = Onward([pos |-> p.pos, labels |-> walked])
  BY <1>4, <1>6 DEF LabelHere
<1>8. HasPointer(p.pos, Len(msg)) /\ p.pos + 1 < Len(msg)
  BY <1>1, <1>4, <1>7 DEF PointerAt, HasPointer
<1>9. low = Octet(p.pos + 1)
  BY <1>2, <1>8 DEF Ahead
<1> DEFINE t == Target(p.pos)
<1>10. Offset(high, low) = t /\ t \in Nat
  BY <1>1, <1>4, <1>5, <1>7, <1>9, TargetNat DEF Target
<1>11. path[k + 1] = [pos |-> t, labels |-> walked]
  BY <1>7, <1>8 DEF Onward
<1>12. PICK q : q = p'
  OBVIOUS
<1> HIDE DEF t
<1>13. q \in Parses /\ q.pos = t /\ q.start = p.start /\ q.labels = p.labels /\ q.consume = p.consume
  <2>1. q = [p EXCEPT !.pos = t]
    BY <1>2, <1>10, <1>12
  <2> QED
    BY <1>1, <1>10, <2>1 DEF Parses
<1>14. Walking(q, walked)
  <2>1. Within(q.labels) /\ Consumed(q)
    BY <1>1, <1>13 DEF Walking, Consumed
  <2>2. /\ k + 1 \in 1 .. Len(path) /\ Way(path, q.start) /\ path[Len(path)].labels = q.labels
        /\ path[Len(path)].pos < Len(msg) /\ Octet(path[Len(path)].pos) = 0
        /\ path[k + 1] = [pos |-> q.pos, labels |-> walked]
    BY <1>3, <1>7, <1>11, <1>13 DEF OnTheWay
  <2> QED
    BY <2>1, <2>2 DEF Walking
<1>15. PICK given : given = walked
  OBVIOUS
<1>16. Walking(q, given)'
  BY <1>1, <1>14, <1>15, SameMessage
<1>17. Walking(p, walked)' /\ p' \in Parses
  BY <1>1, <1>12, <1>13, <1>15, <1>16
<1> QED
  BY <1>1, <1>17 DEF NameInv

LEMMA WalkLabelStep ==
  ASSUME NameInv, WalkLabel
  PROVE  NameInv'
<1>1. /\ msg \in Seq(Octets) /\ p \in Parses /\ Walking(p, walked) /\ stage = "walk"
      /\ UNCHANGED <<stage, toEncode, at, nodes, starts, msg>>
  BY DEF NameInv, WalkLabel
<1>2. PICK n \in Ahead(p.pos) :
        /\ n < Mark /\ n # 0
        /\ walked' = Append(walked, [from |-> p.pos + 1, size |-> n])
        /\ p' = [p EXCEPT !.pos = NextLabel(n)]
  BY DEF WalkLabel
<1>3. PICK path, k : OnTheWay(path, k)
  BY <1>1 DEF Walking, OnTheWay
<1>4. /\ p.pos \in Nat /\ p.pos < Len(msg) /\ Octet(p.pos) \in Nat
      /\ \/ k = Len(path) /\ Octet(p.pos) = 0 /\ walked = p.labels
         \/ /\ k + 1 \in 1 .. Len(path)
            /\ PointerAt(p.pos) \/ LabelHere(p.pos)
            /\ path[k + 1] = Onward([pos |-> p.pos, labels |-> walked])
  BY <1>3, IteratorThere
<1>5. n = Octet(p.pos)
  BY <1>2, <1>4 DEF Ahead
<1>6. k + 1 \in 1 .. Len(path) /\ path[k + 1] = Onward([pos |-> p.pos, labels |-> walked])
  BY <1>2, <1>4, <1>5
<1>7. ~HasPointer(p.pos, Len(msg))
  BY <1>2, <1>4, <1>5, NameLimits DEF HasPointer
<1> DEFINE more == Append(walked, [from |-> p.pos + 1, size |-> n])
           t == NextLabel(n)
<1>8. t \in Nat /\ path[k + 1] = [pos |-> t, labels |-> more]
  BY <1>4, <1>5, <1>6, <1>7 DEF Onward, NextLabel
<1>9. PICK q, given : q = p' /\ given = walked'
  OBVIOUS
<1> HIDE DEF t, more
<1>10. q \in Parses /\ q.pos = t /\ q.start = p.start /\ q.labels = p.labels /\ q.consume = p.consume
  <2>1. q = [p EXCEPT !.pos = t]
    BY <1>2, <1>9 DEF t
  <2> QED
    BY <1>1, <1>8, <2>1 DEF Parses
<1>11. given = more
  BY <1>2, <1>9 DEF more
<1>12. Walking(q, given)
  <2>1. Within(q.labels) /\ Consumed(q)
    BY <1>1, <1>10 DEF Walking, Consumed
  <2>2. /\ k + 1 \in 1 .. Len(path) /\ Way(path, q.start) /\ path[Len(path)].labels = q.labels
        /\ path[Len(path)].pos < Len(msg) /\ Octet(path[Len(path)].pos) = 0
        /\ path[k + 1] = [pos |-> q.pos, labels |-> given]
    BY <1>3, <1>6, <1>8, <1>10, <1>11 DEF OnTheWay
  <2> QED
    BY <2>1, <2>2 DEF Walking
<1>13. Walking(q, given)'
  BY <1>1, <1>12, SameMessage
<1>14. Walking(p, walked)' /\ p' \in Parses
  BY <1>9, <1>10, <1>13
<1> QED
  BY <1>1, <1>14 DEF NameInv

LEMMA WalkEndsStep ==
  ASSUME NameInv, WalkEnds
  PROVE  NameInv'
<1>1. /\ msg \in Seq(Octets) /\ p \in Parses /\ Walking(p, walked) /\ 0 \in Ahead(p.pos) /\ stage' = "done"
      /\ UNCHANGED <<toEncode, at, nodes, starts, msg, p, walked>>
  BY DEF NameInv, WalkEnds
<1>2. PICK path, k : OnTheWay(path, k)
  BY <1>1 DEF Walking, OnTheWay
<1>3. /\ p.pos \in Nat /\ p.pos < Len(msg) /\ Octet(p.pos) \in Nat
      /\ \/ k = Len(path) /\ Octet(p.pos) = 0 /\ walked = p.labels
         \/ /\ k + 1 \in 1 .. Len(path)
            /\ PointerAt(p.pos) \/ LabelHere(p.pos)
            /\ path[k + 1] = Onward([pos |-> p.pos, labels |-> walked])
  BY <1>2, IteratorThere
<1>4. Octet(p.pos) = 0
  BY <1>1, <1>3 DEF Ahead
<1>5. ~PointerAt(p.pos) /\ ~LabelHere(p.pos)
  BY <1>4, NameLimits DEF PointerAt, LabelHere, HasPointer
<1>6. Walked(p, walked)
  BY <1>1, <1>3, <1>5 DEF Walking, Walked
<1>7. PICK q, given : q = p /\ given = walked
  OBVIOUS
<1>8. Walked(q, given)'
  BY <1>1, <1>6, <1>7, SameMessage
<1>9. Walked(p, walked)'
  BY <1>1, <1>7, <1>8
<1> QED
  BY <1>1, <1>9 DEF NameInv

LEMMA ReadNextStep ==
  ASSUME NameInv, ReadNext
  PROVE  NameInv'
<1> DEFINE i == p.start + p.consume
           n == Len(msg)
<1>1. /\ msg \in Seq(Octets) /\ p \in Parses /\ stage' = "parse" /\ p' = ParseFrom(i, n) /\ walked' = <<>>
      /\ UNCHANGED <<toEncode, at, nodes, starts, msg>>
  BY DEF NameInv, ReadNext
<1>2. i \in Nat /\ n \in Nat /\ n = Len(msg')
  BY <1>1 DEF Parses
<1> HIDE DEF i, n
<1>3. PICK j \in Nat : j = i
  BY <1>2
<1>4. p' \in Parses /\ Parsing(p)'
  <2>1. PICK m \in Nat : m = n
    BY <1>2
  <2> QED
    BY <1>1, <1>2, <1>3, <2>1, ParseStarts
<1> QED
  BY <1>1, <1>4 DEF NameInv

LEMMA NameNextStep ==
  ASSUME NameInv, [NameNext]_nameVars
  PROVE  NameInv'
<1>1. CASE UNCHANGED nameVars
  <2>1. UNCHANGED <<stage, toEncode, at, nodes, starts, msg, p, walked>>
    BY <1>1 DEF nameVars
  <2>2. PICK q, given : q = p /\ given = walked
    OBVIOUS
  <2>3. /\ Parsing(q) => Parsing(q)'
        /\ Walking(q, given) => Walking(q, given)'
        /\ Walked(q, given) => Walked(q, given)'
    BY <2>1, SameMessage
  <2>4. /\ Parsing(p) => Parsing(p)'
        /\ Walking(p, walked) => Walking(p, walked)'
        /\ Walked(p, walked) => Walked(p, walked)'
    BY <2>1, <2>2, <2>3
  <2> QED
    BY <2>1, <2>4 DEF NameInv
<1>2. CASE stage = "idle" /\ \E list \in NameLists : Encode(list)
  BY <1>2, EncodeStep
<1>3. CASE stage = "idle" /\ \E m \in Messages, start \in Starts : Parse(m, start)
  BY <1>3, ParseStep
<1>4. CASE EncodeFails \/ PointerFails \/ LabelFails
  <2>1. stage' \in {"failed", "refused"} /\ UNCHANGED <<toEncode, at, nodes, starts, msg, p, walked>>
    BY <1>4 DEF EncodeFails, PointerFails, LabelFails, Fail
  <2> QED
    BY <2>1, GiveUpStep
<1>5. CASE WritePointer
  BY <1>5, WritePointerStep
<1>6. CASE WriteLabel
  BY <1>6, WriteLabelStep
<1>7. CASE WriteRoot
  BY <1>7, WriteRootStep
<1>8. CASE FollowPointer
  BY <1>8, FollowPointerStep
<1>9. CASE TakeLabel
  BY <1>9, TakeLabelStep
<1>10. CASE WalkPointer
  BY <1>10, WalkPointerStep
<1>11. CASE WalkLabel
  BY <1>11, WalkLabelStep
<1>12. CASE WalkEnds
  BY <1>12, WalkEndsStep
<1>13. CASE ReadNext
  BY <1>13, ReadNextStep
<1> QED
  BY <1>1, <1>2, <1>3, <1>4, <1>5, <1>6, <1>7, <1>8, <1>9, <1>10, <1>11, <1>12, <1>13 DEF NameNext, NameTurn

(* Whatever a message holds, LabelsIterator gives the labels that           *)
(* parse_domain_name() has checked, all of them inside the message, and     *)
(* the decoder goes on behind the octets the name takes where it stands     *)
(* (bytes_to_consume), but for a name of 256 octets.                        *)
THEOREM NamesReadAsWritten == NameSpec => []NamesAgree
<1>1. NameInit => NameInv
  BY NameInitInv
<1>2. NameInv /\ [NameNext]_nameVars => NameInv'
  BY NameNextStep
<1>3. NameInv => NamesAgree
  BY DEF NameInv, Walked, Within, Consumed, NamesAgree
<1> QED
  BY <1>1, <1>2, <1>3, PTL DEF NameSpec

-----------------------------------------------------------------------------
(* Names that are encoded. *)

(* The name without the dot at its end. *)
LEMMA DotDropped ==
  ASSUME NEW string \in Strings
  PROVE  /\ string \in Seq(Octets \cup {Dot}) /\ Len(string) \in Nat
         /\ WithoutLastDot(string) \in Seq(Octets \cup {Dot}) /\ Len(WithoutLastDot(string)) \in Nat
         /\ \A k \in 1 .. Len(WithoutLastDot(string)) : WithoutLastDot(string)[k] = string[k]
         /\ \/ /\ Len(string) = Len(WithoutLastDot(string)) + 1
               /\ string[Len(string)] = Dot
            \/ /\ Len(string) = Len(WithoutLastDot(string))
               /\ Len(string) > 0 => string[Len(string)] # Dot
<1> DEFINE sv == WithoutLastDot(string)
<1>0. string \in Seq(Octets \cup {Dot}) /\ Len(string) \in Nat
  BY DEF Strings
<1>1. CASE string # <<>> /\ Last(string) = Dot
  <2>1. sv = SubSeq(string, 1, Len(string) - 1)
    BY <1>1 DEF WithoutLastDot, Front
  <2> HIDE DEF sv
  <2>2. Len(string) \in Nat \ {0} /\ string[Len(string)] = Dot
    BY <1>0, <1>1 DEF Last
  <2>3. /\ sv \in Seq(Octets \cup {Dot}) /\ Len(sv) = Len(string) - 1
        /\ \A k \in 1 .. Len(string) - 1 : sv[k] = string[k]
    <3> DEFINE n == Len(string) - 1
    <3>1. n \in Nat /\ n <= Len(string) /\ sv = SubSeq(string, 1, n)
      BY <2>1, <2>2
    <3> HIDE DEF n
    <3>2. sv \in Seq(Octets \cup {Dot})
      BY <1>0, <3>1
    <3>3. Len(sv) = n
      BY <1>0, <3>1
    <3>4. \A k \in 1 .. n : sv[k] = string[k]
      BY <1>0, <3>1
    <3> QED
      BY <3>2, <3>3, <3>4 DEF n
  <2>4. Len(sv) \in Nat /\ Len(string) = Len(sv) + 1
    BY <2>2, <2>3
  <2> QED
    BY <1>0, <2>2, <2>3, <2>4 DEF sv
<1>2. CASE ~(string # <<>> /\ Last(string) = Dot)
  <2>1. sv = string
    BY <1>2 DEF WithoutLastDot
  <2>2. Len(string) > 0 => string # <<>> /\ string[Len(string)] # Dot
    BY <1>0, <1>2 DEF Last
  <2> QED
    BY <1>0, <2>1, <2>2
<1> QED
  BY <1>1, <1>2

LEMMA LabelStartIs ==
  ASSUME NEW string \in Strings, NEW i
  PROVE  /\ i \in LabelStarts(string) =>
              /\ i \in 1 .. Len(WithoutLastDot(string)) + 1 /\ Len(WithoutLastDot(string)) > 0
              /\ i = 1 \/ WithoutLastDot(string)[i - 1] = Dot
         /\ i = 1 /\ Len(WithoutLastDot(string)) > 0 => i \in LabelStarts(string)
         /\ /\ i \in 2 .. Len(WithoutLastDot(string)) + 1
            /\ WithoutLastDot(string)[i - 1] = Dot
            => i \in LabelStarts(string)
<1> DEFINE sv == WithoutLastDot(string)
           D == {j \in DOMAIN sv : sv[j] = Dot}
<1>1. sv \in Seq(Octets \cup {Dot}) /\ Len(sv) \in Nat
  BY DotDropped
<1>2. LabelStarts(string) = IF sv = <<>> THEN {} ELSE {1} \cup {k + 1 : k \in D}
  BY DEF LabelStarts
<1> HIDE DEF sv
<1>3. sv = <<>> <=> ~(Len(sv) > 0)
  BY <1>1
<1>4. D = {j \in 1 .. Len(sv) : sv[j] = Dot}
  BY <1>1
<1>5. ASSUME i \in LabelStarts(string)
      PROVE  i \in 1 .. Len(sv) + 1 /\ Len(sv) > 0 /\ (i = 1 \/ sv[i - 1] = Dot)
  BY <1>1, <1>2, <1>3, <1>4, <1>5
<1>6. ASSUME i \in 2 .. Len(sv) + 1, sv[i - 1] = Dot PROVE i \in LabelStarts(string)
  <2>1. i - 1 \in D /\ i = (i - 1) + 1 /\ sv # <<>>
    BY <1>1, <1>3, <1>4, <1>6
  <2>2. i \in {k + 1 : k \in D}
    BY <2>1
  <2> HIDE DEF D
  <2> QED
    BY <1>2, <2>1, <2>2
<1>7. ASSUME i = 1, Len(sv) > 0 PROVE i \in LabelStarts(string)
  <2> HIDE DEF D
  <2> QED
    BY <1>2, <1>3, <1>7
<1> QED
  BY <1>5, <1>6, <1>7 DEF sv

(* Where a label ends: before the next dot, or with the name. *)
EndsLabel(sv, i, j) ==
  /\ j \in i - 1 .. Len(sv)
  /\ \A k \in i .. j : sv[k] # Dot
  /\ j = Len(sv) \/ sv[j + 1] = Dot

LEMMA LabelEndIs ==
  ASSUME NEW string \in Strings, NEW i \in 1 .. Len(WithoutLastDot(string)) + 1
  PROVE  /\ EndsLabel(WithoutLastDot(string), i, LabelEnd(string, i))
         /\ \A j : EndsLabel(WithoutLastDot(string), i, j) => j = LabelEnd(string, i)
<1> DEFINE sv == WithoutLastDot(string)
           L == Len(sv)
           e == LabelEnd(string, i)
<1>1. sv \in Seq(Octets \cup {Dot}) /\ L \in Nat /\ i \in 1 .. L + 1
  BY DotDropped
<1>2. e = CHOOSE j \in i - 1 .. L : /\ \A k \in i .. j : sv[k] # Dot
                                    /\ j = L \/ sv[j + 1] = Dot
  BY DEF LabelEnd, sv, L
<1> HIDE DEF sv, e
<1> DEFINE J == {j \in i - 1 .. L : j = L \/ sv[j + 1] = Dot}
<1>3. J \subseteq Nat /\ L \in J
  BY <1>1
<1>4. PICK m \in J : \A j \in J : m <= j
  <2> HIDE DEF J
  <2> QED
    BY <1>3, LeastNat
<1>5. \A k \in i .. m : sv[k] # Dot
  <2> SUFFICES ASSUME NEW k \in i .. m, sv[k] = Dot PROVE FALSE
    OBVIOUS
  <2>1. k - 1 \in i - 1 .. L /\ sv[(k - 1) + 1] = Dot
    BY <1>1, <1>4
  <2>2. k - 1 \in J
    BY <2>1
  <2>3. m \in Nat /\ k \in Int /\ k <= m
    BY <1>3, <1>4
  <2> HIDE DEF J
  <2>4. m <= k - 1
    BY <1>4, <2>2
  <2> QED
    BY <2>3, <2>4
<1>6. EndsLabel(sv, i, e)
  <2>1. \E j \in i - 1 .. L : (\A k \in i .. j : sv[k] # Dot) /\ (j = L \/ sv[j + 1] = Dot)
    BY <1>4, <1>5
  <2>2. e \in i - 1 .. L /\ (\A k \in i .. e : sv[k] # Dot) /\ (e = L \/ sv[e + 1] = Dot)
    BY <1>2, <2>1
  <2> QED
    BY <2>2 DEF EndsLabel
<1>7. ASSUME NEW c, NEW d, EndsLabel(sv, i, c), EndsLabel(sv, i, d), c < d PROVE FALSE
  <2>1. /\ c \in i - 1 .. L /\ d \in i - 1 .. L /\ (c = L \/ sv[c + 1] = Dot)
        /\ \A k \in i .. d : sv[k] # Dot
    BY <1>7 DEF EndsLabel
  <2>2. c + 1 \in i .. d /\ c # L
    BY <1>1, <1>7, <2>1
  <2> QED
    BY <2>1, <2>2
<1>8. ASSUME NEW j, EndsLabel(sv, i, j) PROVE j = e
  <2>1. j \in Int /\ e \in Int
    BY <1>1, <1>6, <1>8 DEF EndsLabel
  <2>2. ~(j < e)
    BY <1>6, <1>7, <1>8
  <2>3. ~(e < j)
    BY <1>6, <1>7, <1>8
  <2> QED
    BY <2>1, <2>2, <2>3
<1> QED
  BY <1>6, <1>8 DEF sv, e

(* What is left of a name from a on.  A name that is only a dot is empty.   *)
Rest(string, a) == IF a = 1 /\ string = <<Dot>> THEN <<>> ELSE Remaining(string, a)

(* A label starts at a, or the name has ended. *)
Border(string, a) ==
  /\ a \in Nat \ {0}
  /\ a = 1 \/ a \in LabelStarts(string) \/ a = Len(WithoutLastDot(string)) + 2

(* A label of m characters begins a string. *)
Begins(s, m) ==
  /\ m \in 1 .. MaxLabel /\ m <= Len(s)
  /\ \A k \in 1 .. m : s[k] # Dot
  /\ m = Len(s) \/ s[m + 1] = Dot

LEMMA RestIs ==
  ASSUME NEW string \in Strings, NEW a \in Nat \ {0}
  PROVE  /\ Remaining(string, a) \in Seq(Octets \cup {Dot})
         /\ Len(Remaining(string, a)) = IF a <= Len(string) THEN Len(string) - a + 1 ELSE 0
         /\ \A k \in 1 .. Len(Remaining(string, a)) : Remaining(string, a)[k] = string[a + k - 1]
         /\ Rest(string, a) \in Seq(Octets \cup {Dot})
<1>1. string \in Seq(Octets \cup {Dot}) /\ Len(string) \in Nat
  BY DotDropped
<1>2. Remaining(string, a) = SubSeq(string, a, Len(string))
  BY DEF Remaining
<1>3. /\ Remaining(string, a) \in Seq(Octets \cup {Dot})
      /\ Len(Remaining(string, a)) = IF a <= Len(string) THEN Len(string) - a + 1 ELSE 0
      /\ \A k \in 1 .. Len(Remaining(string, a)) : Remaining(string, a)[k] = string[a + k - 1]
  BY <1>1, <1>2
<1>4. <<>> \in Seq(Octets \cup {Dot})
  OBVIOUS
<1> QED
  BY <1>3, <1>4 DEF Rest

(* The label at a is the first m characters of what is left of the name.    *)
LabelThere(string, a, s, m) ==
  /\ a \in LabelStarts(string) /\ LabelEnd(string, a) = a + m - 1
  /\ LabelAt(string, a) = SubSeq(s, 1, m) /\ Len(LabelAt(string, a)) = m
  /\ Border(string, a + m + 1) /\ Rest(string, a + m + 1) = SubSeq(s, m + 2, Len(s))
  /\ a + m <= Len(WithoutLastDot(string)) + 1
  /\ \A i \in LabelStarts(string) : ~(a < i /\ i < a + m + 1)

LEMMA LabelBegun ==
  ASSUME NEW string \in Strings, NEW a, Border(string, a), NEW s, s = Rest(string, a), NEW m, Begins(s, m)
  PROVE  LabelThere(string, a, s, m)
<1> DEFINE sv == WithoutLastDot(string)
           r == Remaining(string, a)
<1>1. /\ string \in Seq(Octets \cup {Dot}) /\ Len(string) \in Nat
      /\ sv \in Seq(Octets \cup {Dot}) /\ Len(sv) \in Nat
      /\ \A k \in 1 .. Len(sv) : sv[k] = string[k]
      /\ \/ Len(string) = Len(sv) + 1 /\ string[Len(string)] = Dot
         \/ Len(string) = Len(sv) /\ (Len(string) > 0 => string[Len(string)] # Dot)
  BY DotDropped
<1>2. /\ m \in Nat /\ m >= 1 /\ m <= Len(s) /\ (\A k \in 1 .. m : s[k] # Dot)
      /\ m = Len(s) \/ s[m + 1] = Dot
  BY NameLimits DEF Begins
<1>3. a \in Nat \ {0}
  BY DEF Border
<1>4. s = r
  BY <1>2, <1>3, RestIs DEF Rest
<1>5. /\ r \in Seq(Octets \cup {Dot})
      /\ Len(r) = IF a <= Len(string) THEN Len(string) - a + 1 ELSE 0
      /\ \A k \in 1 .. Len(r) : r[k] = string[a + k - 1]
  BY <1>3, RestIs
<1> HIDE DEF sv, r
<1>6. a <= Len(string) /\ Len(s) = Len(string) - a + 1
  BY <1>2, <1>3, <1>4, <1>5
<1>N. /\ a \in Int /\ a >= 1 /\ m \in Int /\ m >= 1 /\ Len(sv) \in Int /\ Len(sv) >= 0 /\ Len(string) \in Int
      /\ Len(string) = Len(sv) + 1 \/ Len(string) = Len(sv)
      /\ a <= Len(string) /\ Len(s) = Len(string) - a + 1 /\ m <= Len(s) /\ s = r
  BY <1>1, <1>2, <1>3, <1>4, <1>6
<1>7. \A k \in a .. a + m - 1 : string[k] # Dot
  <2> SUFFICES ASSUME NEW k \in a .. a + m - 1 PROVE string[k] # Dot
    OBVIOUS
  <2>1. k - a + 1 \in 1 .. m /\ k - a + 1 \in 1 .. Len(r) /\ a + (k - a + 1) - 1 = k
    BY <1>2, <1>3, <1>4, <1>6
  <2> QED
    BY <1>2, <1>4, <1>5, <2>1
<1>8. m = Len(s) \/ (m + 1 <= Len(s) /\ string[a + m] = Dot)
  <2> SUFFICES ASSUME m # Len(s) PROVE m + 1 <= Len(s) /\ string[a + m] = Dot
    OBVIOUS
  <2>1. m + 1 \in 1 .. Len(r) /\ a + (m + 1) - 1 = a + m /\ m + 1 <= Len(s)
    BY <1>N
  <2> QED
    BY <1>2, <1>4, <1>5, <2>1
<1>9. a + m - 1 <= Len(sv) /\ (a + m - 1 = Len(sv) \/ (a + m <= Len(sv) /\ sv[a + m] = Dot))
  <2>1. a + m - 1 \in a .. a + m - 1 /\ a + m - 1 <= Len(string) /\ a + m - 1 >= 1
    BY <1>1, <1>2, <1>3, <1>6
  <2>2. a + m - 1 <= Len(sv)
    <3> SUFFICES ASSUME a + m - 1 > Len(sv) PROVE FALSE
      BY <1>1, <1>2, <1>3
    <3>1. a + m - 1 = Len(string) /\ Len(string) # Len(sv)
      BY <1>N, <2>1
    <3>2. string[Len(string)] = Dot
      BY <1>1, <3>1
    <3> QED
      BY <1>7, <2>1, <3>1, <3>2
  <2>3. CASE m = Len(s)
    BY <1>1, <1>2, <1>3, <1>6, <2>2, <2>3
  <2>4. CASE m + 1 <= Len(s) /\ string[a + m] = Dot
    <3>1. a + m <= Len(string)
      BY <1>1, <1>2, <1>3, <1>6, <2>4
    <3>2. CASE a + m <= Len(sv)
      <4>1. a + m \in 1 .. Len(sv)
        BY <1>1, <1>2, <1>3, <3>2
      <4> QED
        BY <1>1, <2>2, <2>4, <3>2, <4>1
    <3>3. CASE ~(a + m <= Len(sv))
      BY <1>N, <2>2, <3>3
    <3> QED
      BY <3>2, <3>3
  <2> QED
    BY <1>8, <2>3, <2>4
<1>10. a \in 1 .. Len(sv) + 1
  BY <1>1, <1>2, <1>3, <1>9
<1>11. \A k \in a .. a + m - 1 : sv[k] # Dot
  <2> SUFFICES ASSUME NEW k \in a .. a + m - 1 PROVE sv[k] # Dot
    OBVIOUS
  <2>1. k \in 1 .. Len(sv)
    BY <1>1, <1>2, <1>3, <1>9
  <2> QED
    BY <1>1, <1>7, <2>1
<1>12. LabelEnd(string, a) = a + m - 1
  <2> DEFINE j == a + m - 1
  <2>1. j \in a - 1 .. Len(sv) /\ j + 1 = a + m
    BY <1>1, <1>2, <1>3, <1>9
  <2>2. j = Len(sv) \/ sv[j + 1] = Dot
    BY <1>9, <2>1
  <2> HIDE DEF j
  <2>3. EndsLabel(sv, a, j)
    BY <1>11, <2>1, <2>2 DEF EndsLabel, j
  <2>4. j = LabelEnd(string, a)
    BY <1>10, <2>3, LabelEndIs DEF sv
  <2> QED
    BY <2>4 DEF j
<1>13. a \in LabelStarts(string)
  <2>1. CASE a = 1
    <3>1. Len(sv) > 0
      BY <1>1, <1>2, <1>9, <2>1
    <3> QED
      BY <2>1, <3>1, LabelStartIs DEF sv
  <2>2. CASE a = Len(sv) + 2
    BY <1>1, <1>2, <1>3, <1>10, <2>2
  <2> QED
    BY <2>1, <2>2 DEF Border, sv
<1>14. SubSeq(string, a, a + m - 1) = SubSeq(s, 1, m)
  <2> DEFINE x == SubSeq(string, a, a + m - 1)
             y == SubSeq(s, 1, m)
  <2>1. x = [k \in 1 .. m |-> string[a + k - 1]]
    BY <1>1, <1>2, <1>3, <1>6
  <2>2. y = [k \in 1 .. m |-> s[k]]
    BY <1>2, <1>4, <1>5
  <2>3. \A k \in 1 .. m : s[k] = string[a + k - 1]
    BY <1>2, <1>4, <1>5
  <2> HIDE DEF x, y
  <2>4. x = y
    BY <2>1, <2>2, <2>3
  <2> QED
    BY <2>4 DEF x, y
<1>15. Len(SubSeq(s, 1, m)) = m
  BY <1>2, <1>4, <1>5
<1>16. Border(string, a + m + 1)
  <2>1. a + m + 1 \in Nat \ {0} /\ (a + m + 1) - 1 = a + m
    BY <1>2, <1>3
  <2>2. CASE a + m - 1 = Len(sv)
    <3>1. a + m + 1 = Len(sv) + 2
      BY <1>N, <2>2
    <3> QED
      BY <2>1, <3>1 DEF Border, sv
  <2>3. CASE a + m <= Len(sv) /\ sv[a + m] = Dot
    <3>1. a + m + 1 \in 2 .. Len(sv) + 1
      BY <1>1, <1>2, <1>3, <2>3
    <3>2. a + m + 1 \in LabelStarts(string)
      BY <2>1, <2>3, <3>1, LabelStartIs DEF sv
    <3> QED
      BY <2>1, <3>2 DEF Border
  <2> QED
    BY <1>9, <2>2, <2>3
<1>17. Rest(string, a + m + 1) = SubSeq(s, m + 2, Len(s))
  <2> DEFINE n == Len(s) - m - 1
             b == a + m + 1
  <2>0. b \in Nat \ {0} /\ b # 1
    BY <1>2, <1>3
  <2>1. Rest(string, b) = SubSeq(string, b, Len(string))
    BY <2>0 DEF Rest, Remaining
  <2>2. SubSeq(string, b, Len(string)) = [k \in 1 .. n |-> string[k + b - 1]]
    BY <1>1, <1>2, <1>3, <1>6
  <2>3. SubSeq(s, m + 2, Len(s)) = [k \in 1 .. n |-> s[k + m + 1]]
    BY <1>1, <1>2, <1>3, <1>4, <1>5, <1>6
  <2>4. \A k \in 1 .. n : s[k + m + 1] = string[k + b - 1]
    <3> SUFFICES ASSUME NEW k \in 1 .. n PROVE s[k + m + 1] = string[k + b - 1]
      OBVIOUS
    <3>1. k + m + 1 \in 1 .. Len(r) /\ a + (k + m + 1) - 1 = k + b - 1
      BY <1>N
    <3> QED
      BY <1>4, <1>5, <3>1
  <2> HIDE DEF n, b
  <2>5. Rest(string, b) = SubSeq(s, m + 2, Len(s))
    BY <2>1, <2>2, <2>3, <2>4
  <2> QED
    BY <2>5 DEF b
<1>18. ASSUME NEW i \in LabelStarts(string), a < i, i < a + m + 1 PROVE FALSE
  <2>1. i \in 1 .. Len(sv) + 1 /\ (i = 1 \/ sv[i - 1] = Dot)
    BY LabelStartIs DEF sv
  <2>2. i - 1 \in a .. a + m - 1 /\ i # 1
    BY <1>1, <1>2, <1>3, <1>18, <2>1
  <2> QED
    BY <1>11, <2>1, <2>2
<1>19. a + m <= Len(sv) + 1
  BY <1>1, <1>2, <1>3, <1>9
<1> QED
  BY <1>12, <1>13, <1>14, <1>15, <1>16, <1>17, <1>18, <1>19 DEF LabelThere, LabelAt, sv

(* A label that fits is what is left of the name begins with. *)
LEMMA LabelFits ==
  ASSUME NEW string \in Strings, NEW a \in LabelStarts(string), Len(LabelAt(string, a)) \in 1 .. MaxLabel
  PROVE  /\ Border(string, a) /\ Rest(string, a) = Remaining(string, a)
         /\ Begins(Rest(string, a), Len(LabelAt(string, a)))
<1> DEFINE sv == WithoutLastDot(string)
           r == Remaining(string, a)
           e == LabelEnd(string, a)
           m == Len(LabelAt(string, a))
<1>1. /\ string \in Seq(Octets \cup {Dot}) /\ Len(string) \in Nat
      /\ sv \in Seq(Octets \cup {Dot}) /\ Len(sv) \in Nat
      /\ \A k \in 1 .. Len(sv) : sv[k] = string[k]
      /\ \/ Len(string) = Len(sv) + 1 /\ string[Len(string)] = Dot
         \/ Len(string) = Len(sv) /\ (Len(string) > 0 => string[Len(string)] # Dot)
  BY DotDropped
<1>2. a \in 1 .. Len(sv) + 1 /\ Len(sv) > 0
  BY LabelStartIs
<1>3. e \in a - 1 .. Len(sv) /\ (\A k \in a .. e : sv[k] # Dot) /\ (e = Len(sv) \/ sv[e + 1] = Dot)
  BY <1>2, LabelEndIs DEF EndsLabel
<1>4. LabelAt(string, a) = SubSeq(string, a, e)
  BY DEF LabelAt
<1>5. a \in Nat \ {0}
  BY <1>1, <1>2
<1>6. /\ r \in Seq(Octets \cup {Dot})
      /\ Len(r) = IF a <= Len(string) THEN Len(string) - a + 1 ELSE 0
      /\ \A k \in 1 .. Len(r) : r[k] = string[a + k - 1]
  BY <1>5, RestIs
<1> HIDE DEF sv, e, r
<1>7. Len(SubSeq(string, a, e)) = e - a + 1
  BY <1>1, <1>2, <1>3
<1>8. m = e - a + 1 /\ m \in 1 .. MaxLabel
  BY <1>4, <1>7
<1> HIDE DEF m
<1>N. /\ a \in Int /\ a >= 1 /\ e \in Int /\ m \in Int /\ m >= 1 /\ e = a + m - 1 /\ e <= Len(sv)
      /\ Len(sv) \in Int /\ Len(string) \in Int /\ Len(sv) <= Len(string)
      /\ Len(string) = Len(sv) + 1 \/ Len(string) = Len(sv)
  BY <1>1, <1>2, <1>3, <1>8, NameLimits
<1>9. Len(r) = Len(string) - a + 1 /\ m <= Len(r) /\ Len(r) \in Nat
  BY <1>6, <1>N
<1>10. \A k \in 1 .. m : r[k] # Dot
  <2> SUFFICES ASSUME NEW k \in 1 .. m PROVE r[k] # Dot
    OBVIOUS
  <2>1. k \in 1 .. Len(r) /\ a + k - 1 \in a .. e /\ a + k - 1 \in 1 .. Len(sv)
    BY <1>N, <1>9
  <2> QED
    BY <1>1, <1>3, <1>6, <2>1
<1>11. m = Len(r) \/ r[m + 1] = Dot
  <2> SUFFICES ASSUME m # Len(r) PROVE r[m + 1] = Dot
    OBVIOUS
  <2>1. m + 1 \in 1 .. Len(r) /\ a + (m + 1) - 1 = e + 1
    BY <1>N, <1>9
  <2>2. r[m + 1] = string[e + 1]
    BY <1>6, <2>1
  <2>3. CASE e = Len(sv)
    <3>1. e + 1 = Len(string)
      BY <1>N, <1>9, <2>3
    <3> QED
      BY <1>1, <1>N, <2>2, <2>3, <3>1
  <2>4. CASE e # Len(sv)
    <3>1. e + 1 \in 1 .. Len(sv)
      BY <1>N, <2>4
    <3> QED
      BY <1>1, <1>3, <2>2, <2>4, <3>1
  <2> QED
    BY <2>3, <2>4
<1>12. string # <<Dot>>
  <2> SUFFICES ASSUME string = <<Dot>> PROVE FALSE
    OBVIOUS
  <2>1. Len(string) = 1 /\ string[1] = Dot
    OBVIOUS
  <2> QED
    BY <1>1, <1>2, <2>1
<1>13. Rest(string, a) = r
  BY <1>12 DEF Rest, r
<1>14. Begins(r, m)
  BY <1>8, <1>9, <1>10, <1>11 DEF Begins
<1> QED
  BY <1>5, <1>13, <1>14 DEF Border, m, r

(* Where a name ends. *)
LEMMA NameEndsThere ==
  ASSUME NEW string \in Strings, NEW a, Border(string, a)
  PROVE  /\ a <= Len(WithoutLastDot(string)) + 2
         /\ a \notin LabelStarts(string) => Rest(string, a) = <<>>
         /\ Rest(string, a) = <<>> => \A i \in LabelStarts(string) : i < a
<1> DEFINE sv == WithoutLastDot(string)
           r == Remaining(string, a)
<1>1. /\ string \in Seq(Octets \cup {Dot}) /\ Len(string) \in Nat
      /\ sv \in Seq(Octets \cup {Dot}) /\ Len(sv) \in Nat
      /\ \A k \in 1 .. Len(sv) : sv[k] = string[k]
      /\ \/ Len(string) = Len(sv) + 1 /\ string[Len(string)] = Dot
         \/ Len(string) = Len(sv) /\ (Len(string) > 0 => string[Len(string)] # Dot)
  BY DotDropped
<1>2. a \in Nat \ {0} /\ (a = 1 \/ a \in LabelStarts(string) \/ a = Len(sv) + 2)
  BY DEF Border
<1>3. /\ r \in Seq(Octets \cup {Dot})
      /\ Len(r) = IF a <= Len(string) THEN Len(string) - a + 1 ELSE 0
  BY <1>2, RestIs
<1>4. ASSUME NEW i \in LabelStarts(string)
      PROVE  i \in 1 .. Len(sv) + 1 /\ Len(sv) > 0 /\ (i = 1 \/ sv[i - 1] = Dot)
  BY LabelStartIs
<1>5. Len(sv) > 0 => 1 \in LabelStarts(string)
  BY LabelStartIs
<1>6. Rest(string, a) = IF a = 1 /\ string = <<Dot>> THEN <<>> ELSE r
  BY DEF Rest
<1>7. string = <<Dot>> => Len(sv) = 0
  <2> SUFFICES ASSUME string = <<Dot>> PROVE Len(sv) = 0
    OBVIOUS
  <2>1. Len(string) = 1 /\ string[1] = Dot
    OBVIOUS
  <2> HIDE DEF sv
  <2> QED
    BY <1>1, <2>1
<1> HIDE DEF sv, r
<1>8. a <= Len(sv) + 2
  BY <1>1, <1>2, <1>4
<1>9. ASSUME a \notin LabelStarts(string) PROVE Rest(string, a) = <<>>
  <2>1. CASE a = 1 /\ string = <<Dot>>
    BY <1>6, <2>1
  <2>2. CASE ~(a = 1 /\ string = <<Dot>>)
    <3>1. a = 1 => Len(sv) = 0 /\ Len(string) = 0
      <4> SUFFICES ASSUME a = 1 PROVE Len(sv) = 0 /\ Len(string) = 0
        OBVIOUS
      <4>1. Len(sv) = 0
        BY <1>1, <1>5, <1>9
      <4>2. CASE Len(string) = Len(sv) + 1 /\ string[Len(string)] = Dot
        <5>1. Len(string) = 1 /\ string[1] = Dot
          BY <4>1, <4>2
        <5>2. string = <<Dot>>
          BY <1>1, <5>1
        <5> QED
          BY <2>2, <5>2
      <4> QED
        BY <1>1, <4>1, <4>2
    <3>2. ~(a <= Len(string))
      BY <1>1, <1>2, <1>9, <3>1
    <3>3. r = <<>>
      BY <1>3, <3>2
    <3> QED
      BY <1>6, <2>2, <3>3
  <2> QED
    BY <2>1, <2>2
<1>10. ASSUME Rest(string, a) = <<>>, NEW i \in LabelStarts(string) PROVE i < a
  <2>1. i \in 1 .. Len(sv) + 1 /\ Len(sv) > 0
    BY <1>4
  <2>2. ~(a <= Len(string))
    <3>1. Len(r) = 0
      BY <1>6, <1>7, <1>10, <2>1
    <3> QED
      BY <1>1, <1>2, <1>3, <3>1
  <2> SUFFICES ASSUME a <= i PROVE FALSE
    BY <1>1, <1>2, <2>1
  <2>3. Len(string) = Len(sv) /\ a = Len(sv) + 1 /\ a # 1
    BY <1>1, <1>2, <2>1, <2>2
  <2>4. sv[Len(sv)] = Dot
    <3>1. a \in LabelStarts(string)
      BY <1>1, <1>2, <2>3
    <3>2. sv[a - 1] = Dot
      BY <1>4, <2>3, <3>1
    <3> QED
      BY <1>1, <2>3, <3>2
  <2>5. string[Len(string)] = Dot /\ Len(string) > 0
    BY <1>1, <2>1, <2>3, <2>4
  <2> QED
    BY <1>1, <2>3, <2>5
<1> QED
  BY <1>8, <1>9, <1>10 DEF sv

-----------------------------------------------------------------------------
(* The labels that were read are those of the name up to a, in order.       *)
Before(string, a) == {j \in LabelStarts(string) : j < a}
Content(l) == SubSeq(msg, l.from + 1, l.from + l.size)
Spelled(string, a, labels) ==
  /\ Len(labels) = Cardinality(Before(string, a))
  /\ \A n \in 1 .. Len(labels) : \E i \in Before(string, a) :
       LabelRank(string, i) = n /\ Content(labels[n]) = LabelAt(string, i)

LEMMA LabelStartsFinite ==
  ASSUME NEW string \in Strings
  PROVE  /\ IsFiniteSet(LabelStarts(string)) /\ LabelStarts(string) \subseteq Nat
         /\ \A S \in SUBSET LabelStarts(string) : IsFiniteSet(S) /\ Cardinality(S) \in Nat
<1> DEFINE n == Len(WithoutLastDot(string)) + 1
<1>1. n \in Nat
  BY DotDropped
<1>2. LabelStarts(string) \subseteq 1 .. n
  BY LabelStartIs
<1> HIDE DEF n
<1>3. IsFiniteSet(1 .. n)
  BY <1>1, FS_Interval
<1>4. IsFiniteSet(LabelStarts(string))
  BY <1>2, <1>3, FS_Subset
<1>5. LabelStarts(string) \subseteq Nat
  BY <1>1, <1>2
<1> QED
  BY <1>4, <1>5, FS_Subset, FS_CardinalityType

(* Labels are told by their rank. *)
LEMMA RankTells ==
  ASSUME NEW string \in Strings, NEW i \in LabelStarts(string), NEW j \in LabelStarts(string),
         LabelRank(string, i) = LabelRank(string, j)
  PROVE  i = j
<1>0. i \in Nat /\ j \in Nat
  BY LabelStartsFinite
<1>1. ASSUME NEW c \in LabelStarts(string), NEW d \in LabelStarts(string), c < d,
             LabelRank(string, c) = LabelRank(string, d)
      PROVE  FALSE
  <2> DEFINE C == {l \in LabelStarts(string) : l <= c}
             D == {l \in LabelStarts(string) : l <= d}
  <2>1. c \in Nat /\ d \in Nat /\ LabelStarts(string) \subseteq Nat
    BY LabelStartsFinite
  <2>2. C \subseteq D /\ d \in D /\ d \notin C
    BY <1>1, <2>1
  <2>3. IsFiniteSet(D) /\ Cardinality(C) = Cardinality(D)
    BY <1>1, LabelStartsFinite DEF LabelRank
  <2> HIDE DEF C, D
  <2> QED
    BY <2>2, <2>3, FS_Subset
<1> QED
  BY <1>0, <1>1

LEMMA NoneBefore ==
  ASSUME NEW string \in Strings
  PROVE  Cardinality(Before(string, 1)) = 0
<1>1. Before(string, 1) = {}
  BY LabelStartIs, DotDropped DEF Before
<1> QED
  BY <1>1, FS_EmptySet

LEMMA SpelledOn ==
  ASSUME NEW string \in Strings, NEW a \in LabelStarts(string), NEW b \in Nat, a < b,
         \A i \in LabelStarts(string) : ~(a < i /\ i < b),
         NEW labels \in Seq(Label), Spelled(string, a, labels),
         NEW l \in Label, Content(l) = LabelAt(string, a)
  PROVE  Spelled(string, b, Append(labels, l))
<1> DEFINE B == Before(string, a)
           C == Before(string, b)
           g == Append(labels, l)
<1>1. LabelStarts(string) \subseteq Nat
  BY LabelStartsFinite
<1>2. C = B \cup {a} /\ a \notin B
  BY <1>1 DEF Before
<1>3. IsFiniteSet(B) /\ Cardinality(B) \in Nat
  <2>1. B \in SUBSET LabelStarts(string)
    BY DEF Before
  <2> HIDE DEF B
  <2> QED
    BY <2>1, LabelStartsFinite
<1>4. Cardinality(C) = Cardinality(B) + 1
  <2> HIDE DEF B, C
  <2> QED
    BY <1>2, <1>3, FS_AddElement
<1>5. /\ Len(labels) = Cardinality(B)
      /\ \A n \in 1 .. Len(labels) : \E i \in B :
           LabelRank(string, i) = n /\ Content(labels[n]) = LabelAt(string, i)
  BY DEF Spelled
<1>6. Len(g) = Len(labels) + 1 /\ g[Len(labels) + 1] = l /\ (\A n \in 1 .. Len(labels) : g[n] = labels[n])
      /\ Len(labels) \in Nat
  OBVIOUS
<1>7. LabelRank(string, a) = Cardinality(C)
  <2>1. {j \in LabelStarts(string) : j <= a} = C
    BY <1>1 DEF Before
  <2> QED
    BY <2>1 DEF LabelRank
<1> HIDE DEF B, C, g
<1>8. ASSUME NEW n \in 1 .. Len(g)
      PROVE  \E i \in C : LabelRank(string, i) = n /\ Content(g[n]) = LabelAt(string, i)
  <2>1. CASE n = Len(labels) + 1
    <3>1. a \in C /\ LabelRank(string, a) = n /\ g[n] = l
      BY <1>2, <1>4, <1>5, <1>6, <1>7, <2>1
    <3> QED
      BY <3>1
  <2>2. CASE n # Len(labels) + 1
    <3>1. n \in 1 .. Len(labels)
      BY <1>6, <2>2
    <3>2. g[n] = labels[n]
      BY <1>6, <3>1
    <3>3. PICK i \in B : LabelRank(string, i) = n /\ Content(labels[n]) = LabelAt(string, i)
      BY <1>5, <3>1
    <3> QED
      BY <1>2, <3>2, <3>3
  <2> QED
    BY <2>1, <2>2
<1>9. Len(g) = Cardinality(C)
  BY <1>4, <1>5, <1>6
<1> QED
  BY <1>8, <1>9 DEF Spelled, C, g

LEMMA SpelledAll ==
  ASSUME NEW string \in Strings, NEW a, \A i \in LabelStarts(string) : i < a,
         NEW labels \in Seq(Label), Spelled(string, a, labels)
  PROVE  [n \in DOMAIN labels |-> Content(labels[n])] = SplitIntoLabels(string)
<1> DEFINE S == LabelStarts(string)
           f == [n \in DOMAIN labels |-> Content(labels[n])]
<1>1. Before(string, a) = S
  BY DEF Before
<1>2. /\ Len(labels) = Cardinality(S)
      /\ \A n \in 1 .. Len(labels) : \E i \in S :
           LabelRank(string, i) = n /\ Content(labels[n]) = LabelAt(string, i)
  BY <1>1 DEF Spelled
<1>3. DOMAIN labels = 1 .. Cardinality(S)
  BY <1>2
<1>4. ASSUME NEW n \in 1 .. Cardinality(S)
      PROVE  f[n] = LabelAt(string, CHOOSE i \in S : LabelRank(string, i) = n)
  <2>1. PICK i \in S : LabelRank(string, i) = n /\ Content(labels[n]) = LabelAt(string, i)
    BY <1>2, <1>4
  <2> DEFINE c == CHOOSE j \in S : LabelRank(string, j) = n
  <2>2. c \in S /\ LabelRank(string, c) = n
    BY <2>1
  <2>3. f[n] = Content(labels[n])
    BY <1>3
  <2> HIDE DEF c, f
  <2>4. c = i
    BY <2>1, <2>2, RankTells
  <2> QED
    BY <2>1, <2>3, <2>4 DEF c
<1>5. f = [n \in 1 .. Cardinality(S) |-> f[n]]
  BY <1>3
<1> HIDE DEF f
<1>6. f = [n \in 1 .. Cardinality(S) |-> LabelAt(string, CHOOSE i \in S : LabelRank(string, i) = n)]
  BY <1>4, <1>5
<1>7. f = SplitIntoLabels(string)
  BY <1>6 DEF SplitIntoLabels
<1> QED
  BY <1>7 DEF f

-----------------------------------------------------------------------------
(* What the octets of the message stand for: from pos on, str is encoded,   *)
(* which lies in place in the name number `of`.                             *)
Piece == [pos : Nat, str : Strings, of : Nat]

(* Name number k is encoded in place up to e. *)
NameEndsAt(e, k) == IF k < Len(starts) THEN e = starts[k + 1] ELSE stage # "encode" /\ e = Len(msg)

LabelPiece(q, S) ==
  \E m \in 1 .. MaxLabel :
    /\ Begins(q.str, m)
    /\ q.pos + m < Len(msg) /\ Octet(q.pos) = m
    /\ \A n \in 1 .. m : Octet(q.pos + n) = q.str[n]
    /\ [pos |-> q.pos + m + 1, str |-> SubSeq(q.str, m + 2, Len(q.str)), of |-> q.of] \in S

RootPiece(q) ==
  q.str = <<>> /\ q.pos < Len(msg) /\ Octet(q.pos) = 0 /\ NameEndsAt(q.pos + 1, q.of)

(* A pointer leads to a label, never to a pointer. *)
PointerPiece(q, S) ==
  /\ q.pos + 1 < Len(msg) /\ Octet(q.pos) >= Mark /\ NameEndsAt(q.pos + 2, q.of)
  /\ \E t \in S : /\ t.pos = Target(q.pos) /\ t.pos <= MaxPointer /\ t.str = q.str
                  /\ LabelPiece(t, S)

(* What the encoder has still to write. *)
OpenPiece == [pos |-> Len(msg), str |-> Rest(Name, at), of |-> Len(starts)]

Filled(q, S) == RootPiece(q) \/ LabelPiece(q, S) \/ PointerPiece(q, S)
Encoded(q, S) == Filled(q, S) \/ (stage = "encode" /\ q = OpenPiece)

StoredIn(S) ==
  /\ toEncode \in Seq(Strings) /\ starts \in Seq(Nat) /\ Len(starts) \in 1 .. Len(toEncode)
  /\ starts[1] = 0 /\ S \subseteq Piece
  /\ \A q \in S : q.of \in 1 .. Len(starts) /\ Encoded(q, S)
  /\ \A k \in 1 .. Len(starts) :
       [pos |-> starts[k], str |-> Rest(toEncode[k], 1), of |-> k] \in S
  /\ \A n \in nodes : \E t \in S : t.pos = n.offset /\ t.str = n.str /\ LabelPiece(t, S)
  /\ stage = "encode" => Border(Name, at) /\ OpenPiece \in S

(* parse_domain_name() is in name number k, with what is left of it from a  *)
(* on before it.  The octets up to e are counted when a pointer was         *)
(* followed: they are less than those of the whole name.                    *)
ReadingAt(x, S, k, a, q) ==
  /\ k \in 1 .. Len(starts) /\ starts[k] = x.start
  /\ Border(toEncode[k], a) /\ x.len = a - 1 /\ Spelled(toEncode[k], a, x.labels)
  /\ q \in S /\ q.pos = x.pos /\ q.str = Rest(toEncode[k], a)
  /\ x.first = NoPointer \/ LabelPiece(q, S)
  /\ x.firstPtr => q.of = k
  /\ ~x.firstPtr =>
       \E e \in Nat : /\ NameEndsAt(e, k) /\ x.consume = Uint8(e - x.start) /\ x.start <= e
                      /\ \/ e - x.start <= x.len
                         \/ e - x.start = x.len + 2 /\ LabelPiece(q, S)

ReadingIn(x, S) == \E k, a, q : ReadingAt(x, S, k, a, q)

(* A name was read back. *)
ReadBack(x) ==
  \E k \in 1 .. Len(starts) :
    /\ starts[k] = x.start /\ NameEndsAt(x.start + x.consume, k)
    /\ [n \in DOMAIN x.labels |-> Content(x.labels[n])] = SplitIntoLabels(toEncode[k])

TooLong(x) ==
  \E k \in 1 .. Len(starts) :
    starts[k] = x.start /\ Len(WithoutLastDot(toEncode[k])) + 2 > MaxName

EchoInv ==
  /\ stage = "idle" => toEncode = <<>> /\ nodes = {} /\ msg = <<>> /\ at = 1
  /\ stage # "refused" /\ toEncode # <<>> =>
       /\ \E S : StoredIn(S) /\ (stage = "parse" => ReadingIn(p, S))
       /\ stage \in {"walk", "done"} => ReadBack(p)
       /\ stage = "failed" => TooLong(p)

(* While the message stays, what is stored in it stays. *)
LEMMA SameStore ==
  ASSUME UNCHANGED <<toEncode, at, nodes, starts, msg>>, stage = "encode" <=> stage' = "encode", NEW S, NEW x
  PROVE  /\ StoredIn(S) => StoredIn(S)'
         /\ ReadingIn(x, S) => ReadingIn(x, S)'
         /\ ReadBack(x) => ReadBack(x)'
         /\ TooLong(x) => TooLong(x)'
<1>1. \A i : Octet(i) = Octet(i)'
  BY DEF Octet
<1>2. \A e, k : NameEndsAt(e, k) <=> NameEndsAt(e, k)'
  BY DEF NameEndsAt
<1>3. \A l : Content(l) = Content(l)'
  BY DEF Content
<1>4. ASSUME NEW q PROVE LabelPiece(q, S) <=> LabelPiece(q, S)'
  BY <1>1 DEF LabelPiece
<1>5. ASSUME NEW q PROVE RootPiece(q) <=> RootPiece(q)'
  BY <1>1, <1>2 DEF RootPiece
<1>6. ASSUME NEW q PROVE PointerPiece(q, S) <=> PointerPiece(q, S)'
  <2>1. Target(q.pos) = Target(q.pos)'
    BY <1>1 DEF Target
  <2> QED
    BY <1>1, <1>2, <1>4, <2>1 DEF PointerPiece
<1>7. Name = Name' /\ OpenPiece = OpenPiece'
  BY DEF Name, OpenPiece
<1>8. ASSUME NEW q PROVE Encoded(q, S) <=> Encoded(q, S)'
  BY <1>4, <1>5, <1>6, <1>7 DEF Encoded, Filled
<1>9. StoredIn(S) => StoredIn(S)'
  BY <1>4, <1>7, <1>8 DEF StoredIn
<1>10. ASSUME NEW string, NEW a, NEW labels PROVE Spelled(string, a, labels) <=> Spelled(string, a, labels)'
  BY <1>3 DEF Spelled
<1>11. ASSUME NEW k, NEW a, NEW q, ReadingAt(x, S, k, a, q) PROVE ReadingAt(x, S, k, a, q)'
  BY <1>2, <1>4, <1>10, <1>11 DEF ReadingAt
<1>12. ReadingIn(x, S) => ReadingIn(x, S)'
  BY <1>11 DEF ReadingIn
<1>13. ReadBack(x) => ReadBack(x)'
  BY <1>2, <1>3 DEF ReadBack
<1>14. TooLong(x) => TooLong(x)'
  BY DEF TooLong
<1> QED
  BY <1>9, <1>12, <1>13, <1>14

(* What lies below a bound with more added to it lies below it with less. *)
LEMMA AddedBelow ==
  ASSUME NEW n \in Nat, NEW less \in Nat, NEW more \in Nat, NEW bound \in Nat,
         less <= more, n + more < bound
  PROVE  n + less \in Nat /\ n + less < bound /\ n < bound
OBVIOUS

(* Pieces stay what they are when octets are added. *)
LEMMA PiecesStay ==
  ASSUME msg \in Seq(Octets), NEW tail \in Seq(Octets), msg' = msg \o tail, stage = "encode",
         starts \in Seq(Nat), starts' = starts \/ \E n \in Nat : starts' = Append(starts, n),
         NEW S, NEW T, S \subseteq T, S \subseteq Piece, NEW q \in S
  PROVE  /\ LabelPiece(q, S) => LabelPiece(q, T)'
         /\ Filled(q, S) => Filled(q, T)'
<1>1. /\ Len(msg) \in Nat /\ Len(msg') \in Nat /\ Len(msg) <= Len(msg')
      /\ \A i \in 1 .. Len(msg) : msg'[i] = msg[i]
  OBVIOUS
<1>2. ASSUME NEW i \in Nat, i < Len(msg) PROVE Octet(i)' = Octet(i)
  <2>1. i + 1 \in 1 .. Len(msg)
    BY <1>1, <1>2
  <2> QED
    BY <1>1, <2>1 DEF Octet
<1>3. \A e, k : k \in Nat /\ NameEndsAt(e, k) => NameEndsAt(e, k)'
  <2> SUFFICES ASSUME NEW e, NEW k \in Nat, NameEndsAt(e, k) PROVE NameEndsAt(e, k)'
    OBVIOUS
  <2>1. k < Len(starts) /\ e = starts[k + 1]
    BY DEF NameEndsAt
  <2>2. k + 1 \in 1 .. Len(starts)
    BY <2>1
  <2>3. k < Len(starts') /\ starts'[k + 1] = starts[k + 1]
    <3>1. CASE starts' = starts
      BY <2>1, <3>1
    <3>2. CASE starts' # starts
      <4>1. PICK n \in Nat : starts' = Append(starts, n)
        BY <3>2
      <4> QED
        BY <2>1, <2>2, <4>1
    <3> QED
      BY <3>1, <3>2
  <2> QED
    BY <2>1, <2>3 DEF NameEndsAt
<1>4. ASSUME NEW t \in S, LabelPiece(t, S) PROVE LabelPiece(t, T)'
  <2>1. PICK m \in 1 .. MaxLabel :
          /\ Begins(t.str, m)
          /\ t.pos + m < Len(msg) /\ Octet(t.pos) = m
          /\ \A n \in 1 .. m : Octet(t.pos + n) = t.str[n]
          /\ [pos |-> t.pos + m + 1, str |-> SubSeq(t.str, m + 2, Len(t.str)), of |-> t.of] \in S
    BY <1>4 DEF LabelPiece
  <2>2. t.pos \in Nat /\ m \in Nat
    <3>1. t.pos \in Nat
      BY DEF Piece
    <3> QED
      BY <3>1, NameLimits
  <2>6. t.pos + m < Len(msg)
    BY <2>1
  <2>3. Octet(t.pos)' = m
    <3>1. m <= m
      BY <2>2
    <3>3. t.pos < Len(msg)
      BY <1>1, <2>2, <2>6, <3>1, AddedBelow, Zenon
    <3>2. Octet(t.pos)' = Octet(t.pos)
      BY <1>2, <2>2, <3>3, Zenon
    <3> QED
      BY <2>1, <3>2
  <2>4. \A n \in 1 .. m : Octet(t.pos + n)' = t.str[n]
    <3> SUFFICES ASSUME NEW n \in 1 .. m PROVE Octet(t.pos + n)' = t.str[n]
      OBVIOUS
    <3>4. n \in Nat /\ n <= m
      BY <2>2
    <3>1. t.pos + n \in Nat /\ t.pos + n < Len(msg)
      BY <1>1, <2>2, <2>6, <3>4, AddedBelow, Zenon
    <3>2. PICK i : i = t.pos + n
      OBVIOUS
    <3>3. Octet(i)' = Octet(i)
      BY <1>2, <3>1, <3>2
    <3> QED
      BY <2>1, <3>2, <3>3
  <2>5. t.pos + m < Len(msg')
    BY <1>1, <2>1, <2>2
  <2> QED
    BY <2>1, <2>3, <2>4, <2>5 DEF LabelPiece
<1>5. q.pos \in Nat /\ q.of \in Nat
  BY DEF Piece
<1>6. ASSUME RootPiece(q) PROVE RootPiece(q)'
  <2>1. q.str = <<>> /\ q.pos < Len(msg) /\ Octet(q.pos) = 0 /\ NameEndsAt(q.pos + 1, q.of)
    BY <1>6 DEF RootPiece
  <2>2. Octet(q.pos)' = 0 /\ q.pos < Len(msg') /\ NameEndsAt(q.pos + 1, q.of)'
    BY <1>1, <1>2, <1>3, <1>5, <2>1
  <2> QED
    BY <2>1, <2>2 DEF RootPiece
<1>7. ASSUME PointerPiece(q, S) PROVE PointerPiece(q, T)'
  <2>1. q.pos + 1 < Len(msg) /\ Octet(q.pos) >= Mark /\ NameEndsAt(q.pos + 2, q.of)
    BY <1>7 DEF PointerPiece
  <2>2. PICK t \in S : /\ t.pos = Target(q.pos) /\ t.pos <= MaxPointer /\ t.str = q.str
                       /\ LabelPiece(t, S)
    BY <1>7 DEF PointerPiece
  <2>3. q.pos + 1 \in Nat /\ q.pos < Len(msg)
    <3>1. 1 \in Nat /\ 1 <= 1
      OBVIOUS
    <3> QED
      BY <1>1, <1>5, <2>1, <3>1, AddedBelow, Zenon
  <2>4. Octet(q.pos)' = Octet(q.pos)
    BY <1>2, <1>5, <2>3
  <2>5. Octet(q.pos + 1)' = Octet(q.pos + 1)
    <3>2. PICK i : i = q.pos + 1
      OBVIOUS
    <3>3. Octet(i)' = Octet(i)
      BY <1>2, <2>1, <2>3, <3>2
    <3> QED
      BY <3>2, <3>3
  <2>6. Target(q.pos)' = Target(q.pos)
    BY <2>4, <2>5 DEF Target
  <2>7. q.pos + 1 < Len(msg') /\ NameEndsAt(q.pos + 2, q.of)'
    BY <1>1, <1>3, <1>5, <2>1
  <2>8. LabelPiece(t, T)' /\ t \in T
    BY <1>4, <2>2
  <2> QED
    BY <2>1, <2>2, <2>4, <2>6, <2>7, <2>8 DEF PointerPiece
<1> QED
  BY <1>4, <1>6, <1>7 DEF Filled

(* The reader begins with a name. *)
LEMMA ReadingStarts ==
  ASSUME NEW S, StoredIn(S)', NEW i \in Nat, NEW n \in Nat, p' = ParseFrom(i, n),
         NEW k \in 1 .. Len(starts'), starts'[k] = i
  PROVE  ReadingIn(p, S)'
<1>1. PICK x : x = p'
  OBVIOUS
<1>2. Begun(x, i, n) /\ x.first = NoPointer
  <2>1. PICK e : e = <<>>
    OBVIOUS
  <2>2. x = [start |-> i, pos |-> i, lim |-> n, first |-> NoPointer, firstPtr |-> TRUE,
             consume |-> 0, len |-> 0, labels |-> e]
    BY <1>1, <2>1, Zenon DEF ParseFrom
  <2>3. x.first = NoPointer
    BY <2>2
  <2> QED
    BY <1>1, <2>3, ParseFromFields
<1>3. PICK string, q : string = toEncode'[k] /\ q = [pos |-> i, str |-> Rest(string, 1), of |-> k]
  OBVIOUS
<1>3a. string \in Strings /\ q \in S
  BY <1>3 DEF StoredIn
<1>4. Spelled(string, 1, x.labels)'
  <2>1. x.labels = <<>> /\ Len(x.labels) = 0
    BY <1>2 DEF Begun
  <2>2. Cardinality(Before(string, 1)) = 0
    BY <1>3a, NoneBefore
  <2> QED
    BY <2>1, <2>2 DEF Spelled
<1>5. Border(string, 1)
  BY DEF Border
<1>6. ReadingAt(x, S, k, 1, q)'
  BY <1>2, <1>3, <1>3a, <1>4, <1>5 DEF ReadingAt, Begun
<1> QED
  BY <1>1, <1>6 DEF ReadingIn

LEMMA EchoEncode ==
  ASSUME NameInv, EchoInv, NEW list \in NameLists, stage = "idle", Encode(list)
  PROVE  EchoInv'
<1>1. list \in Seq(Strings) /\ Len(list) \in Nat /\ Len(list) >= 1 /\ 1 \in 1 .. Len(list)
  <2>1. list \in Seq(Strings) /\ list # <<>>
    BY DnsNameAssumption DEF Strings
  <2> QED
    BY <2>1
<1>2. /\ stage' = "encode" /\ toEncode' = list /\ starts' = <<0>> /\ msg' = <<>> /\ at' = 1 /\ nodes' = {}
  BY DEF Encode, EchoInv
<1> DEFINE q == [pos |-> 0, str |-> Rest(list[1], 1), of |-> 1]
           S == {q}
<1>3. Len(starts') = 1 /\ starts'[1] = 0 /\ starts' \in Seq(Nat) /\ Len(msg') = 0
  BY <1>2
<1>4. OpenPiece' = q /\ Name' = list[1]
  BY <1>2, <1>3 DEF OpenPiece, Name
<1>5. q \in Piece
  <2>1. list[1] \in Strings
    BY <1>1
  <2>2. Rest(list[1], 1) \in Strings
    BY <2>1, RestIs DEF Strings
  <2> QED
    BY <2>2 DEF Piece
<1>6. Border(list[1], 1)
  BY DEF Border
<1>7. q.of = 1 /\ Encoded(q, S)'
  BY <1>2, <1>4 DEF Encoded
<1>8. \A k \in 1 .. Len(starts') : k = 1 /\ [pos |-> starts'[k], str |-> Rest(toEncode'[k], 1), of |-> k] \in S
  <2> SUFFICES ASSUME NEW k \in 1 .. Len(starts')
               PROVE  k = 1 /\ [pos |-> starts'[k], str |-> Rest(toEncode'[k], 1), of |-> k] \in S
    OBVIOUS
  <2>1. k = 1
    BY <1>3
  <2> QED
    BY <1>2, <1>3, <2>1
<1>9. StoredIn(S)'
  <2>1. Len(starts') \in 1 .. Len(toEncode') /\ toEncode' \in Seq(Strings) /\ starts' \in Seq(Nat)
    BY <1>1, <1>2, <1>3
  <2>2. S \subseteq Piece /\ \A r \in S : r.of \in 1 .. Len(starts') /\ Encoded(r, S)'
    BY <1>3, <1>5, <1>7
  <2>3. OpenPiece' \in S /\ Border(Name, at)'
    BY <1>2, <1>4, <1>6
  <2> HIDE DEF S
  <2> QED
    BY <1>2, <1>3, <1>8, <2>1, <2>2, <2>3 DEF StoredIn
<1> QED
  BY <1>2, <1>9 DEF EchoInv

(* The writing of a name ends: what was open is filled. *)
LEMMA EchoNameWritten ==
  ASSUME NameInv, NEW S, StoredIn(S), stage = "encode", NEW octets \in Seq(Octets), NameWritten(octets),
         UNCHANGED <<toEncode, nodes, walked>>,
         NEW o, o = OpenPiece, NEW e, e = Len(msg'), NEW k, k = Len(starts),
         \A T : S \subseteq T /\ NameEndsAt(e, k)' => Filled(o, T)'
  PROVE  EchoInv'
<1>1. /\ msg \in Seq(Octets) /\ starts \in Seq(Nat) /\ toEncode \in Seq(Strings) /\ k \in 1 .. Len(toEncode)
      /\ S \subseteq Piece /\ starts[1] = 0
      /\ \A q \in S : q.of \in 1 .. k /\ (Filled(q, S) \/ q = o)
      /\ \A j \in 1 .. k : [pos |-> starts[j], str |-> Rest(toEncode[j], 1), of |-> j] \in S
      /\ \A n \in nodes : \E t \in S : t.pos = n.offset /\ t.str = n.str /\ LabelPiece(t, S)
  BY DEF NameInv, StoredIn, Encoded
<1>2. msg' = msg \o octets /\ at' = 1 /\ toEncode' = toEncode /\ nodes' = nodes
  BY DEF NameWritten
<1>3. msg' \in Seq(Octets) /\ e \in Nat /\ k \in Nat /\ k >= 1 /\ Len(toEncode) \in Nat /\ toEncode # <<>>
  BY <1>1, <1>2
<1>4. CASE k < Len(toEncode)
  <2>1. starts' = Append(starts, e) /\ stage' = stage
    BY <1>4 DEF NameWritten
  <2>2. /\ Len(starts') = k + 1 /\ starts'[k + 1] = e /\ starts' \in Seq(Nat)
        /\ \A j \in 1 .. k : starts'[j] = starts[j]
    BY <1>1, <1>3, <2>1
  <2>n. PICK n : n = [pos |-> e, str |-> Rest(toEncode[k + 1], 1), of |-> k + 1]
    OBVIOUS
  <2>T. PICK T : T = S \cup {n}
    OBVIOUS
  <2>3. toEncode[k + 1] \in Strings /\ k + 1 \in 1 .. Len(toEncode) /\ k + 1 \in Nat
    BY <1>1, <1>3, <1>4
  <2>4. n \in Piece
    <3>1. Rest(toEncode[k + 1], 1) \in Strings
      BY <2>3, RestIs DEF Strings
    <3> QED
      BY <1>3, <2>3, <2>n, <3>1 DEF Piece
  <2>5. OpenPiece' = n /\ Name' = toEncode[k + 1]
    BY <1>2, <2>2, <2>n DEF OpenPiece, Name
  <2>6. S \subseteq T /\ n \in T /\ n.of = k + 1
    BY <2>n, <2>T
  <2>7. NameEndsAt(e, k)'
    BY <1>3, <2>2 DEF NameEndsAt
  <2>8. Filled(o, T)'
    BY <2>6, <2>7
  <2>9. ASSUME NEW q \in S PROVE (Filled(q, S) => Filled(q, T)') /\ (LabelPiece(q, S) => LabelPiece(q, T)')
    BY <1>1, <1>2, <1>3, <2>1, <2>6, PiecesStay
  <2>10. \A q \in T : q.of \in 1 .. Len(starts') /\ Encoded(q, T)'
    <3> SUFFICES ASSUME NEW q \in T PROVE q.of \in 1 .. Len(starts') /\ Encoded(q, T)'
      OBVIOUS
    <3>1. CASE q \in S
      <4>1. q.of \in 1 .. k + 1
        BY <1>1, <1>3, <3>1
      <4>2. Filled(q, T)'
        BY <1>1, <2>8, <2>9, <3>1
      <4> QED
        BY <2>2, <4>1, <4>2 DEF Encoded
    <3>2. CASE q = n
      <4>1. q.of \in 1 .. Len(starts')
        BY <1>3, <2>2, <2>6, <3>2
      <4> QED
        BY <2>1, <2>5, <3>2, <4>1 DEF Encoded
    <3> QED
      BY <2>T, <3>1, <3>2
  <2>11. \A j \in 1 .. Len(starts') : [pos |-> starts'[j], str |-> Rest(toEncode'[j], 1), of |-> j] \in T
    <3> SUFFICES ASSUME NEW j \in 1 .. Len(starts')
                 PROVE  [pos |-> starts'[j], str |-> Rest(toEncode'[j], 1), of |-> j] \in T
      OBVIOUS
    <3>1. CASE j = k + 1
      BY <1>2, <2>2, <2>6, <2>n, <3>1
    <3>2. CASE j # k + 1
      <4>1. j \in 1 .. k
        BY <1>3, <2>2, <3>2
      <4> QED
        BY <1>1, <1>2, <2>2, <2>6, <4>1
    <3> QED
      BY <3>1, <3>2
  <2>12. \A m \in nodes' : \E t \in T : t.pos = m.offset /\ t.str = m.str /\ LabelPiece(t, T)'
    <3> SUFFICES ASSUME NEW m \in nodes
                 PROVE  \E t \in T : t.pos = m.offset /\ t.str = m.str /\ LabelPiece(t, T)'
      BY <1>2
    <3>1. PICK t \in S : t.pos = m.offset /\ t.str = m.str /\ LabelPiece(t, S)
      BY <1>1
    <3> QED
      BY <2>6, <2>9, <3>1
  <2>13. Border(Name, at)' /\ OpenPiece' \in T
    BY <1>2, <2>5, <2>6 DEF Border
  <2>14. T \subseteq Piece /\ Len(starts') \in 1 .. Len(toEncode') /\ starts'[1] = 0
    <3>1. T \subseteq Piece
      BY <1>1, <2>4, <2>T
    <3>2. Len(starts') \in 1 .. Len(toEncode') /\ 1 \in 1 .. k
      BY <1>2, <1>3, <1>4, <2>2
    <3> QED
      BY <1>1, <2>2, <3>1, <3>2
  <2>15. StoredIn(T)'
    BY <1>1, <1>2, <2>2, <2>10, <2>11, <2>12, <2>13, <2>14 DEF StoredIn
  <2> QED
    BY <1>2, <1>3, <2>1, <2>15 DEF EchoInv
<1>5. CASE ~(k < Len(toEncode))
  <2>1. stage' = "parse" /\ p' = ParseFrom(0, e) /\ starts' = starts
    BY <1>5 DEF NameWritten
  <2>2. NameEndsAt(e, k)'
    BY <1>3, <2>1 DEF NameEndsAt
  <2>3. Filled(o, S)'
    BY <2>2
  <2>4. ASSUME NEW q \in S PROVE (Filled(q, S) => Filled(q, S)') /\ (LabelPiece(q, S) => LabelPiece(q, S)')
    BY <1>1, <1>2, <1>3, <2>1, PiecesStay
  <2>5. \A q \in S : q.of \in 1 .. Len(starts') /\ Encoded(q, S)'
    BY <1>1, <2>1, <2>3, <2>4 DEF Encoded
  <2>6. \A m \in nodes' : \E t \in S : t.pos = m.offset /\ t.str = m.str /\ LabelPiece(t, S)'
    <3> SUFFICES ASSUME NEW m \in nodes
                 PROVE  \E t \in S : t.pos = m.offset /\ t.str = m.str /\ LabelPiece(t, S)'
      BY <1>2
    <3>1. PICK t \in S : t.pos = m.offset /\ t.str = m.str /\ LabelPiece(t, S)
      BY <1>1
    <3> QED
      BY <2>4, <3>1
  <2>7. StoredIn(S)'
    BY <1>1, <1>2, <2>1, <2>5, <2>6 DEF StoredIn
  <2>8. ReadingIn(p, S)'
    <3>1. 1 \in 1 .. Len(starts') /\ starts'[1] = 0 /\ 0 \in Nat
      BY <1>1, <1>3, <2>1
    <3> QED
      BY <1>3, <2>1, <2>7, <3>1, ReadingStarts
  <2> QED
    BY <1>2, <1>3, <2>1, <2>7, <2>8 DEF EchoInv
<1> QED
  BY <1>4, <1>5

(* The octets that are added are read where they stand. *)
LEMMA OctetsAdded ==
  ASSUME msg \in Seq(Octets), NEW tail \in Seq(Octets), msg' = msg \o tail, NEW l, l = Len(msg)
  PROVE  /\ l \in Nat /\ Len(msg') = l + Len(tail) /\ Len(tail) \in Nat
         /\ \A n \in 0 .. Len(tail) - 1 : Octet(l + n)' = tail[n + 1]
<1>1. l \in Nat /\ Len(msg') = l + Len(tail) /\ Len(tail) \in Nat
  OBVIOUS
<1>2. ASSUME NEW n \in 0 .. Len(tail) - 1 PROVE Octet(l + n)' = tail[n + 1]
  <2>1. PICK i : i = l + n
    OBVIOUS
  <2>2. i + 1 \in 1 .. Len(msg) + Len(tail) /\ ~(i + 1 <= Len(msg)) /\ (i + 1) - Len(msg) = n + 1
    BY <1>1, <2>1
  <2>3. msg'[i + 1] = tail[n + 1]
    BY <2>2
  <2>4. Octet(i)' = tail[n + 1]
    BY <2>3 DEF Octet
  <2> QED
    BY <2>1, <2>4
<1> QED
  BY <1>1, <1>2

LEMMA EchoWriteRoot ==
  ASSUME NameInv, NEW S, StoredIn(S), WriteRoot
  PROVE  EchoInv'
<1>1. <<0>> \in Seq(Octets) /\ Len(<<0>>) = 1 /\ <<0>>[1] = 0
  BY NameLimits DEF Octets
<1>2. /\ stage = "encode" /\ NameWritten(<<0>>) /\ UNCHANGED <<toEncode, nodes, walked>>
      /\ at \notin LabelStarts(Name)
  BY DEF WriteRoot
<1>3. PICK o, e, k : o = OpenPiece /\ e = Len(msg') /\ k = Len(starts)
  OBVIOUS
<1>4. msg \in Seq(Octets) /\ msg' = msg \o <<0>> /\ Name \in Strings /\ Border(Name, at)
  BY <1>2 DEF NameInv, NameWritten, Name, StoredIn
<1>5. Rest(Name, at) = <<>>
  BY <1>2, <1>4, NameEndsThere
<1>6. PICK l : l = Len(msg)
  OBVIOUS
<1>7. o.pos = l /\ o.str = <<>> /\ o.of = k
  BY <1>3, <1>5, <1>6 DEF OpenPiece
<1>8. l \in Nat /\ e = l + 1 /\ Octet(l)' = 0
  <2>1. l \in Nat /\ Len(msg') = l + 1 /\ \A n \in 0 .. 0 : Octet(l + n)' = <<0>>[n + 1]
    <3>1. PICK tail : tail = <<0>>
      OBVIOUS
    <3>2. /\ l \in Nat /\ Len(msg') = l + Len(tail)
          /\ \A n \in 0 .. Len(tail) - 1 : Octet(l + n)' = tail[n + 1]
      BY <1>1, <1>4, <1>6, <3>1, OctetsAdded
    <3> QED
      BY <1>1, <3>1, <3>2
  <2>2. PICK i : i = l + 0
    OBVIOUS
  <2>3. Octet(i)' = <<0>>[0 + 1] /\ i = l
    BY <2>1, <2>2
  <2> QED
    BY <1>1, <1>3, <2>1, <2>3
<1>9. \A T : S \subseteq T /\ NameEndsAt(e, k)' => Filled(o, T)'
  <2> SUFFICES ASSUME NEW T, NameEndsAt(e, k)' PROVE Filled(o, T)'
    OBVIOUS
  <2>1. RootPiece(o)'
    BY <1>3, <1>7, <1>8 DEF RootPiece
  <2> QED
    BY <2>1 DEF Filled
<1> QED
  BY <1>1, <1>2, <1>3, <1>9, EchoNameWritten

(* A pointer leads where it says. *)
LEMMA PointerLeads ==
  ASSUME NEW offset \in 0 .. MaxPointer
  PROVE  /\ Len(Pointer(offset)) = 2 /\ Pointer(offset)[1] >= Mark
         /\ Offset(Pointer(offset)[1], Pointer(offset)[2]) = offset
<1> DEFINE B == MaxOctet + 1
           q == offset \div B
           r == offset % B
<1>1. B \in Nat \ {0} /\ offset \in Nat /\ Mark \in Nat
  BY NameLimits, PointersNat
<1>2. Pointer(offset) = <<Mark + q, r>>
  BY DEF Pointer
<1> HIDE DEF q, r
<1>3. Offset(Mark + q, r) = ((Mark + q) - Mark) * B + r
  BY DEF Offset
<1> HIDE DEF B
<1>4. q \in Nat /\ r \in 0 .. B - 1 /\ offset = B * q + r
  BY <1>1, Divided DEF q, r
<1>5. (Mark + q) - Mark = q /\ q * B = B * q /\ Mark + q >= Mark
  BY <1>1, <1>4
<1>6. Offset(Mark + q, r) = offset
  BY <1>3, <1>4, <1>5
<1> QED
  BY <1>2, <1>5, <1>6

LEMMA EchoWritePointer ==
  ASSUME NameInv, NEW S, StoredIn(S), WritePointer
  PROVE  EchoInv'
<1>1. PICK node \in FoundNodes : NameWritten(Pointer(node.offset))
  BY DEF WritePointer
<1>2. PICK d : d = node.offset
  OBVIOUS
<1>3. /\ stage = "encode" /\ NameWritten(Pointer(d)) /\ UNCHANGED <<toEncode, nodes, walked>>
      /\ at \in LabelStarts(Name) /\ Len(LabelAt(Name, at)) \in 1 .. MaxLabel
      /\ node \in nodes /\ node.str = Remaining(Name, at) /\ d \in 0 .. MaxPointer
  BY <1>1, <1>2 DEF WritePointer, Writable, FoundNodes, NameInv
<1>4. PICK octets : octets = Pointer(d)
  OBVIOUS
<1>5. octets \in Seq(Octets) /\ Len(octets) = 2 /\ octets[1] >= Mark /\ Offset(octets[1], octets[2]) = d
  BY <1>3, <1>4, PointerOctets, PointerLeads
<1>6. PICK o, e, k, l : o = OpenPiece /\ e = Len(msg') /\ k = Len(starts) /\ l = Len(msg)
  OBVIOUS
<1>7. msg \in Seq(Octets) /\ starts \in Seq(Nat) /\ msg' = msg \o octets /\ Name \in Strings /\ S \subseteq Piece
  BY <1>3, <1>4 DEF NameInv, NameWritten, Name, StoredIn
<1>8. o.pos = l /\ o.str = node.str /\ o.of = k
  <2>1. Rest(Name, at) = Remaining(Name, at)
    BY <1>3, <1>7, LabelFits
  <2> QED
    BY <1>3, <1>6, <2>1 DEF OpenPiece
<1>9. l \in Nat /\ e = l + 2 /\ Octet(l)' = octets[1] /\ Octet(l + 1)' = octets[2]
  <2>1. l \in Nat /\ Len(msg') = l + 2 /\ \A n \in 0 .. 2 - 1 : Octet(l + n)' = octets[n + 1]
    BY <1>5, <1>6, <1>7, OctetsAdded
  <2>2. PICK i, j : i = l + 0 /\ j = l + 1
    OBVIOUS
  <2>3. Octet(i)' = octets[0 + 1] /\ i = l /\ Octet(j)' = octets[1 + 1]
    BY <2>1, <2>2
  <2> QED
    BY <1>6, <2>1, <2>2, <2>3
<1>10. PICK t \in S : t.pos = d /\ t.str = node.str /\ LabelPiece(t, S)
  BY <1>2, <1>3 DEF StoredIn
<1>11. starts' = starts \/ \E n \in Nat : starts' = Append(starts, n)
  BY <1>3, <1>6, <1>9 DEF NameWritten
<1>12. \A T : S \subseteq T /\ NameEndsAt(e, k)' => Filled(o, T)'
  <2> SUFFICES ASSUME NEW T, S \subseteq T, NameEndsAt(e, k)' PROVE Filled(o, T)'
    OBVIOUS
  <2>1. LabelPiece(t, T)' /\ t \in T
    BY <1>3, <1>5, <1>7, <1>10, <1>11, PiecesStay
  <2>2. Target(l)' = d
    BY <1>5, <1>9 DEF Target
  <2>3. t.pos <= MaxPointer
    BY <1>3, <1>10
  <2>4. l + 1 < Len(msg')
    BY <1>6, <1>9
  <2>5. PointerPiece(o, T)'
    BY <1>5, <1>6, <1>8, <1>9, <1>10, <2>1, <2>2, <2>3, <2>4 DEF PointerPiece
  <2> QED
    BY <2>5 DEF Filled
<1> QED
  BY <1>3, <1>4, <1>5, <1>6, <1>12, EchoNameWritten

LEMMA EchoWriteLabel ==
  ASSUME NameInv, NEW S, StoredIn(S), WriteLabel
  PROVE  EchoInv'
<1>1. PICK piece, m, o, k, l, s : /\ piece = LabelAt(Name, at) /\ m = Len(piece) /\ o = OpenPiece /\ k = Len(starts)
                                  /\ l = Len(msg) /\ s = Rest(Name, at)
  OBVIOUS
<1>2. /\ msg \in Seq(Octets) /\ toEncode \in Seq(Strings) /\ starts \in Seq(Nat) /\ stage = "encode"
      /\ at \in LabelStarts(Name) /\ m \in 1 .. MaxLabel /\ at' = LabelEnd(Name, at) + 2
      /\ UNCHANGED <<stage, toEncode, starts, p, walked>>
      /\ k \in 1 .. Len(toEncode) /\ toEncode # <<>>
  BY <1>1 DEF NameInv, WriteLabel, Writable
<1>3. Name \in Strings /\ Name' = Name /\ S \subseteq Piece /\ o \in S
  BY <1>1, <1>2 DEF Name, StoredIn
<1>4. piece \in Seq(Octets)
  BY <1>1, <1>2, <1>3, LabelOctets
<1>5. PICK tail : tail = <<m>> \o piece
  OBVIOUS
<1>6. msg' = msg \o tail /\ tail \in Seq(Octets) /\ Len(tail) = m + 1 /\ tail[1] = m
      /\ \A n \in 1 .. m : tail[n + 1] = piece[n]
  <2>1. m \in Octets /\ m \in Nat
    BY <1>2, NameLimits DEF Octets
  <2>2. <<m>> \in Seq(Octets)
    BY <2>1
  <2>3. msg' = msg \o <<m>> \o piece
    BY <1>1 DEF WriteLabel
  <2>4. msg' = msg \o tail
    BY <1>2, <1>4, <1>5, <2>2, <2>3
  <2>5. tail \in Seq(Octets) /\ Len(tail) = m + 1 /\ tail[1] = m
    BY <1>1, <1>4, <1>5, <2>1, <2>2
  <2>6. \A n \in 1 .. m : tail[n + 1] = piece[n]
    <3> SUFFICES ASSUME NEW n \in 1 .. m PROVE tail[n + 1] = piece[n]
      OBVIOUS
    <3>1. n + 1 \in 1 .. 1 + Len(piece) /\ ~(n + 1 <= 1) /\ (n + 1) - 1 = n
      BY <1>1, <2>1
    <3> QED
      BY <1>4, <1>5, <2>2, <3>1
  <2> QED
    BY <2>4, <2>5, <2>6
<1>7. Border(Name, at) /\ s = Remaining(Name, at) /\ Begins(s, m)
  BY <1>1, <1>2, <1>3, LabelFits
<1>8. /\ LabelEnd(Name, at) = at + m - 1 /\ piece = SubSeq(s, 1, m)
      /\ Border(Name, at + m + 1) /\ Rest(Name, at + m + 1) = SubSeq(s, m + 2, Len(s))
  <2>1. LabelThere(Name, at, s, m)
    BY <1>1, <1>3, <1>7, LabelBegun
  <2> QED
    BY <1>1, <2>1 DEF LabelThere
<1>9. at' = at + m + 1
  <2>1. at \in Nat /\ m \in Nat
    BY <1>2, <1>7, NameLimits DEF Border
  <2> QED
    BY <1>2, <1>8, <2>1
<1>10. \A n \in 1 .. m : piece[n] = s[n]
  <2>1. s \in Seq(Octets \cup {Dot})
    <3>1. at \in Nat \ {0}
      BY <1>7 DEF Border
    <3>2. Remaining(Name, at) \in Seq(Octets \cup {Dot})
      BY <1>3, <3>1, RestIs
    <3> QED
      BY <1>7, <3>2
  <2>2. m \in Nat /\ m <= Len(s)
    BY <1>2, <1>7, NameLimits DEF Begins
  <2> QED
    BY <1>8, <2>1, <2>2
<1>11. /\ l \in Nat /\ m \in Nat /\ Len(msg') = l + m + 1 /\ Octet(l)' = m
       /\ \A n \in 1 .. m : Octet(l + n)' = s[n]
  <2>1. m \in Nat
    BY <1>2, NameLimits
  <2>2. /\ l \in Nat /\ Len(msg') = l + (m + 1)
        /\ \A n \in 0 .. (m + 1) - 1 : Octet(l + n)' = tail[n + 1]
    BY <1>1, <1>2, <1>6, OctetsAdded, ZenonT(60)
  <2>3. PICK i : i = l + 0
    OBVIOUS
  <2>4. 0 \in 0 .. (m + 1) - 1 /\ i = l
    BY <2>1, <2>2, <2>3
  <2>5. Octet(i)' = tail[0 + 1]
    BY <2>2, <2>3, <2>4
  <2>6. \A n \in 1 .. m : Octet(l + n)' = s[n]
    <3> SUFFICES ASSUME NEW n \in 1 .. m PROVE Octet(l + n)' = s[n]
      OBVIOUS
    <3>1. n \in 0 .. (m + 1) - 1
      BY <2>1
    <3> QED
      BY <1>6, <1>10, <2>2, <3>1
  <2>7. Len(msg') = l + m + 1
    BY <2>1, <2>2
  <2> QED
    BY <1>6, <2>1, <2>2, <2>4, <2>5, <2>6, <2>7
<1>12. PICK y : y = [pos |-> l + m + 1, str |-> SubSeq(s, m + 2, Len(s)), of |-> k]
  OBVIOUS
<1>13. y = OpenPiece' /\ o.pos = l /\ o.str = s /\ o.of = k
  <2>1. Rest(Name', at') = SubSeq(s, m + 2, Len(s))
    BY <1>3, <1>8, <1>9
  <2> QED
    BY <1>1, <1>2, <1>11, <1>12, <2>1 DEF OpenPiece
<1>14. y \in Piece
  <2>1. at + m + 1 \in Nat \ {0} /\ k \in Nat /\ l + m + 1 \in Nat
    BY <1>2, <1>8, <1>11 DEF Border
  <2>2. Rest(Name, at + m + 1) \in Strings
    BY <1>3, <2>1, RestIs DEF Strings
  <2> QED
    BY <1>8, <1>12, <2>1, <2>2 DEF Piece
<1>15. PICK T : T = S \cup {y}
  OBVIOUS
<1>16. LabelPiece(o, T)'
  <2>1. l + m < Len(msg') /\ y \in T
    BY <1>11, <1>15
  <2> QED
    BY <1>2, <1>7, <1>11, <1>12, <1>13, <2>1 DEF LabelPiece
<1>17. ASSUME NEW q \in S PROVE (Filled(q, S) => Filled(q, T)') /\ (LabelPiece(q, S) => LabelPiece(q, T)')
  <2>1. S \subseteq T
    BY <1>15
  <2> QED
    BY <1>2, <1>3, <1>6, <2>1, PiecesStay
<1>18. \A q \in T : q.of \in 1 .. Len(starts') /\ Encoded(q, T)'
  <2> SUFFICES ASSUME NEW q \in T PROVE q.of \in 1 .. Len(starts') /\ Encoded(q, T)'
    OBVIOUS
  <2>1. CASE q \in S
    <3>1. q.of \in 1 .. Len(starts) /\ (Filled(q, S) \/ q = o)
      BY <1>1, <2>1 DEF StoredIn, Encoded
    <3>2. Filled(q, T)'
      BY <1>16, <1>17, <2>1, <3>1 DEF Filled
    <3> QED
      BY <1>2, <3>1, <3>2 DEF Encoded
  <2>2. CASE q = y
    <3>1. q.of = k /\ k \in 1 .. Len(starts')
      BY <1>1, <1>2, <1>12, <2>2
    <3> QED
      BY <1>2, <1>13, <2>2, <3>1 DEF Encoded
  <2> QED
    BY <1>15, <2>1, <2>2
<1>19. \A j \in 1 .. Len(starts') : [pos |-> starts'[j], str |-> Rest(toEncode'[j], 1), of |-> j] \in T
  BY <1>2, <1>15 DEF StoredIn
<1>20. \A x \in nodes' : \E t \in T : t.pos = x.offset /\ t.str = x.str /\ LabelPiece(t, T)'
  <2> SUFFICES ASSUME NEW x \in nodes'
               PROVE  \E t \in T : t.pos = x.offset /\ t.str = x.str /\ LabelPiece(t, T)'
    OBVIOUS
  <2>1. CASE x \in nodes
    <3>1. PICK t \in S : t.pos = x.offset /\ t.str = x.str /\ LabelPiece(t, S)
      BY <2>1 DEF StoredIn
    <3> QED
      BY <1>15, <1>17, <3>1
  <2>2. CASE x = [str |-> Remaining(Name, at), offset |-> Len(msg)]
    <3>1. o.pos = x.offset /\ o.str = x.str /\ o \in T
      BY <1>1, <1>3, <1>7, <1>13, <1>15, <2>2
    <3> QED
      BY <1>16, <3>1
  <2> QED
    BY <2>1, <2>2 DEF WriteLabel
<1>21. Border(Name, at)'
  BY <1>3, <1>8, <1>9 DEF Border
<1>22. StoredIn(T)'
  <2>1. T \subseteq Piece /\ OpenPiece' \in T
    BY <1>3, <1>13, <1>14, <1>15
  <2>2. toEncode' \in Seq(Strings) /\ starts' \in Seq(Nat) /\ Len(starts') \in 1 .. Len(toEncode') /\ starts'[1] = 0
    BY <1>1, <1>2 DEF StoredIn
  <2> QED
    BY <1>18, <1>19, <1>20, <1>21, <2>1, <2>2 DEF StoredIn
<1> QED
  BY <1>2, <1>22 DEF EchoInv

-----------------------------------------------------------------------------
(* What the reader finds at a piece. *)
LEMMA PieceRead ==
  ASSUME msg \in Seq(Octets), NEW S, S \subseteq Piece, NEW q \in S
  PROVE  /\ LabelPiece(q, S) => q.pos < Len(msg) /\ ~HasPointer(q.pos, Len(msg)) /\ Octet(q.pos) # 0
         /\ RootPiece(q) => ~HasPointer(q.pos, Len(msg)) /\ Octet(q.pos) = 0
         /\ PointerPiece(q, S) => HasPointer(q.pos, Len(msg))
         /\ Filled(q, S) => q.pos < Len(msg)
<1>1. q.pos \in Nat /\ Len(msg) \in Nat
  BY DEF Piece
<1>2. ASSUME LabelPiece(q, S) PROVE q.pos < Len(msg) /\ ~HasPointer(q.pos, Len(msg)) /\ Octet(q.pos) # 0
  <2>1. PICK m \in 1 .. MaxLabel : q.pos + m < Len(msg) /\ Octet(q.pos) = m
    BY <1>2 DEF LabelPiece
  <2>2. q.pos < Len(msg) /\ ~(m >= Mark) /\ m # 0
    BY <1>1, <2>1, NameLimits
  <2> QED
    BY <2>1, <2>2 DEF HasPointer
<1>3. ASSUME RootPiece(q)
      PROVE  q.pos < Len(msg) /\ ~HasPointer(q.pos, Len(msg)) /\ Octet(q.pos) = 0
  <2>1. q.pos < Len(msg) /\ Octet(q.pos) = 0
    BY <1>3 DEF RootPiece
  <2>2. ~(0 >= Mark)
    BY NameLimits
  <2> QED
    BY <2>1, <2>2 DEF HasPointer
<1>4. ASSUME PointerPiece(q, S) PROVE q.pos < Len(msg) /\ HasPointer(q.pos, Len(msg))
  <2>1. q.pos + 1 < Len(msg) /\ Octet(q.pos) >= Mark
    BY <1>4 DEF PointerPiece
  <2>2. q.pos < Len(msg) /\ Len(msg) - q.pos >= 2
    BY <1>1, <2>1
  <2> QED
    BY <2>1, <2>2 DEF HasPointer
<1> QED
  BY <1>2, <1>3, <1>4 DEF Filled

(* Where the reader is in a name that was encoded. *)
LEMMA ReaderThere ==
  ASSUME NameInv, NEW S, StoredIn(S), stage = "parse", NEW k, NEW a, NEW q, ReadingAt(p, S, k, a, q)
  PROVE  /\ msg \in Seq(Octets) /\ p \in Parses /\ p.lim = Len(msg) /\ Len(msg) \in Nat
         /\ S \subseteq Piece /\ q \in S /\ q.pos = p.pos /\ p.pos \in Nat /\ Filled(q, S)
         /\ k \in 1 .. Len(starts) /\ toEncode[k] \in Strings /\ Border(toEncode[k], a) /\ a \in Nat \ {0}
         /\ p.start \in Nat /\ p.len \in Nat /\ p.len = a - 1 /\ p.labels \in Seq(Label)
         /\ p.firstPtr => p.pos = p.start + p.len /\ p.consume = Uint8(p.len)
<1>1. msg \in Seq(Octets) /\ p \in Parses /\ Parsing(p)
  BY DEF NameInv
<1>2. p.lim = Len(msg) /\ (p.firstPtr => p.pos = p.start + p.len /\ p.consume = Uint8(p.len))
  BY <1>1 DEF Parsing, Aligned
<1>3. S \subseteq Piece /\ q \in S /\ q.pos = p.pos /\ Filled(q, S)
  BY DEF StoredIn, Encoded, ReadingAt
<1>4. /\ k \in 1 .. Len(starts) /\ Border(toEncode[k], a) /\ p.len = a - 1
  BY DEF ReadingAt
<1>5. toEncode[k] \in Strings
  BY <1>4 DEF StoredIn
<1>6. p.pos \in Nat /\ p.start \in Nat /\ p.len \in Nat /\ p.labels \in Seq(Label) /\ Len(msg) \in Nat
  BY <1>1 DEF Parses
<1>7. a \in Nat \ {0}
  BY <1>4 DEF Border
<1> QED
  BY <1>1, <1>2, <1>3, <1>4, <1>5, <1>6, <1>7

(* A pointer that was written leads to a label of the message, and never    *)
(* back to where the last one led.                                          *)
LEMMA PointerThere ==
  ASSUME NameInv, NEW S, StoredIn(S), stage = "parse", NEW k, NEW a, NEW q, ReadingAt(p, S, k, a, q),
         HasPointer(p.pos, p.lim)
  PROVE  /\ ~LabelPiece(q, S) /\ NameEndsAt(p.pos + 2, q.of)
         /\ Target(p.pos) \in Nat /\ Target(p.pos) <= Len(msg) - 1 /\ Target(p.pos) # p.first
         /\ \E t \in S : t.pos = Target(p.pos) /\ t.str = q.str /\ LabelPiece(t, S)
<1>1. /\ msg \in Seq(Octets) /\ p.lim = Len(msg) /\ S \subseteq Piece /\ q \in S /\ q.pos = p.pos /\ Filled(q, S)
      /\ Len(msg) \in Nat
  BY ReaderThere
<1>2. ~LabelPiece(q, S) /\ ~RootPiece(q) /\ PointerPiece(q, S)
  BY <1>1, PieceRead DEF Filled
<1>3. PICK t \in S : /\ t.pos = Target(q.pos) /\ t.pos <= MaxPointer /\ t.str = q.str
                     /\ LabelPiece(t, S)
  BY <1>2 DEF PointerPiece
<1>4. t.pos < Len(msg)
  BY <1>1, <1>3, PieceRead
<1>5. t.pos \in Nat /\ t.pos # NoPointer /\ t.pos <= Len(msg) - 1
  <2>1. t.pos \in Nat
    BY <1>1 DEF Piece
  <2> QED
    BY <1>1, <1>3, <1>4, <2>1, PointersNat DEF NoPointer
<1>6. p.first = NoPointer
  BY <1>2 DEF ReadingAt
<1>7. NameEndsAt(p.pos + 2, q.of)
  BY <1>1, <1>2 DEF PointerPiece
<1> QED
  BY <1>1, <1>2, <1>3, <1>5, <1>6, <1>7

LEMMA EchoPointerFails ==
  ASSUME NameInv, NEW S, StoredIn(S), stage = "parse" => ReadingIn(p, S), PointerFails
  PROVE  FALSE
<1>1. stage = "parse" /\ HasPointer(p.pos, p.lim)
      /\ (Target(p.pos) > Len(msg) - 1 \/ Target(p.pos) = p.first)
  BY DEF PointerFails
<1>2. PICK k, a, q : ReadingAt(p, S, k, a, q)
  BY <1>1 DEF ReadingIn
<1>3. Target(p.pos) \in Nat /\ Target(p.pos) <= Len(msg) - 1 /\ Target(p.pos) # p.first
  BY <1>1, <1>2, PointerThere
<1>4. Len(msg) \in Nat
  BY <1>1, <1>2, ReaderThere
<1> QED
  BY <1>1, <1>3, <1>4

LEMMA EchoFollowPointer ==
  ASSUME NameInv, NEW S, StoredIn(S), stage = "parse" => ReadingIn(p, S), FollowPointer, toEncode # <<>>
  PROVE  EchoInv'
<1>1. PICK d : d = Target(p.pos)
  OBVIOUS
<1>2. /\ stage = "parse" /\ HasPointer(p.pos, p.lim) /\ p' = Jump(d)
      /\ UNCHANGED <<stage, toEncode, at, nodes, starts, msg, walked>>
  BY <1>1 DEF FollowPointer
<1>3. PICK k, a, q : ReadingAt(p, S, k, a, q)
  BY <1>2 DEF ReadingIn
<1>4. /\ ~LabelPiece(q, S) /\ NameEndsAt(p.pos + 2, q.of)
      /\ \E t \in S : t.pos = d /\ t.str = q.str /\ LabelPiece(t, S)
  BY <1>1, <1>2, <1>3, PointerThere
<1>5. PICK t \in S : t.pos = d /\ t.str = q.str /\ LabelPiece(t, S)
  BY <1>4
<1>6. /\ p \in Parses /\ p.pos \in Nat /\ p.start \in Nat /\ p.len \in Nat
      /\ p.firstPtr => p.pos = p.start + p.len /\ p.consume = Uint8(p.len)
  BY <1>2, <1>3, ReaderThere
<1>7. PICK x : x = p'
  OBVIOUS
<1>8. /\ x.start = p.start /\ x.pos = d /\ ~x.firstPtr /\ x.len = p.len /\ x.labels = p.labels
      /\ x.consume = IF p.firstPtr THEN Uint8(p.consume + 2) ELSE p.consume
  <2>1. CASE p.firstPtr
    <3>1. x = [p EXCEPT !.pos = d, !.lim = Len(msg), !.consume = Uint8(@ + 2), !.first = d,
                        !.firstPtr = FALSE]
      BY <1>2, <1>7, <2>1 DEF Jump
    <3> QED
      BY <1>6, <2>1, <3>1 DEF Parses
  <2>2. CASE ~p.firstPtr
    <3>1. x = [p EXCEPT !.pos = d, !.lim = Len(msg)]
      BY <1>2, <1>7, <2>2 DEF Jump
    <3> QED
      BY <1>6, <2>2, <3>1 DEF Parses
  <2> QED
    BY <2>1, <2>2
<1>9. \E e \in Nat : /\ NameEndsAt(e, k) /\ x.consume = Uint8(e - x.start) /\ x.start <= e
                     /\ \/ e - x.start <= x.len
                        \/ e - x.start = x.len + 2 /\ LabelPiece(t, S)
  <2>1. CASE p.firstPtr
    <3>1. q.of = k /\ p.pos = p.start + p.len /\ p.consume = Uint8(p.len)
      BY <1>3, <1>6, <2>1 DEF ReadingAt
    <3>2. PICK e : e = p.pos + 2
      OBVIOUS
    <3>3. e \in Nat /\ e - p.start = p.len + 2 /\ p.start <= e
      BY <1>6, <3>1, <3>2
    <3>4. x.consume = Uint8(p.len + 2)
      <4>1. Uint8(Uint8(p.len) + 2) = Uint8(p.len + 2)
        BY <1>6, Uint8Sum
      <4> QED
        BY <1>8, <2>1, <3>1, <4>1
    <3> QED
      BY <1>4, <1>5, <1>8, <3>1, <3>2, <3>3, <3>4
  <2>2. CASE ~p.firstPtr
    <3>1. PICK e \in Nat : /\ NameEndsAt(e, k) /\ p.consume = Uint8(e - p.start) /\ p.start <= e
                           /\ \/ e - p.start <= p.len
                              \/ e - p.start = p.len + 2 /\ LabelPiece(q, S)
      BY <1>3, <2>2 DEF ReadingAt
    <3> QED
      BY <1>4, <1>8, <2>2, <3>1
  <2> QED
    BY <2>1, <2>2
<1>10. ReadingAt(x, S, k, a, t)
  BY <1>3, <1>5, <1>8, <1>9 DEF ReadingAt
<1>11. ReadingIn(x, S)
  BY <1>10 DEF ReadingIn
<1>12. StoredIn(S)' /\ ReadingIn(x, S)'
  BY <1>2, <1>11, SameStore
<1>13. ReadingIn(p, S)'
  BY <1>7, <1>12
<1> QED
  BY <1>2, <1>12, <1>13 DEF EchoInv

(* The octets of a label are those of the piece. *)
LEMMA LabelContent ==
  ASSUME msg \in Seq(Octets), NEW i \in Nat, NEW m \in Nat, m >= 1, i + m < Len(msg),
         NEW s \in Strings, m <= Len(s), \A n \in 1 .. m : Octet(i + n) = s[n]
  PROVE  Content([from |-> i + 1, size |-> m]) = SubSeq(s, 1, m)
<1>1. s \in Seq(Octets \cup {Dot}) /\ Len(s) \in Nat /\ Len(msg) \in Nat
  BY DEF Strings
<1> DEFINE one == [from |-> i + 1, size |-> m]
           u == i + 2
           v == i + 1 + m
<1>2. Content(one) = SubSeq(msg, u, v)
  <2>1. one.from = i + 1 /\ one.size = m
    OBVIOUS
  <2>2. one.from + 1 = u /\ one.from + one.size = v
    BY <2>1
  <2> HIDE DEF one, u, v
  <2> QED
    BY <2>2 DEF Content
<1>3. u \in Nat \ {0} /\ v \in Nat /\ v <= Len(msg) /\ v - u + 1 = m /\ \A n \in 1 .. m : u + n - 1 = (i + n) + 1
  BY <1>1
<1>4. SubSeq(msg, u, v) = [n \in 1 .. m |-> msg[u + n - 1]]
  <2> HIDE DEF u, v
  <2> QED
    BY <1>3
<1>5. SubSeq(s, 1, m) = [n \in 1 .. m |-> s[n]]
  BY <1>1
<1>6. \A n \in 1 .. m : msg[u + n - 1] = s[n]
  <2> SUFFICES ASSUME NEW n \in 1 .. m PROVE msg[u + n - 1] = s[n]
    OBVIOUS
  <2>1. u + n - 1 = (i + n) + 1 /\ Octet(i + n) = s[n]
    BY <1>3
  <2> HIDE DEF u
  <2> QED
    BY <2>1 DEF Octet
<1> HIDE DEF u, v, one
<1>7. Content(one) = SubSeq(s, 1, m)
  BY <1>2, <1>4, <1>5, <1>6
<1> QED
  BY <1>7 DEF one

LEMMA Uint8Small ==
  ASSUME NEW n \in Nat, n <= MaxName
  PROVE  Uint8(n) = n
<1> DEFINE u == MaxName + 1
<1>1. u \in Nat \ {0} /\ n \in 0 .. u - 1
  BY NameLimits
<1> HIDE DEF u
<1>2. u * 0 + n = n
  BY <1>1
<1>3. (u * 0 + n) % u = n
  BY <1>1, DivExact
<1>4. n % u = n
  BY <1>2, <1>3
<1> QED
  BY <1>4 DEF Uint8, u

(* The label that is read is the one at a. *)
LEMMA LabelRead ==
  ASSUME NameInv, NEW S, StoredIn(S), stage = "parse", NEW k, NEW a, NEW q, ReadingAt(p, S, k, a, q),
         LabelPiece(q, S), NEW m, m = Octet(p.pos)
  PROVE  /\ m \in 1 .. MaxLabel /\ m \in Nat /\ m >= 1 /\ p.pos + m < Len(msg)
         /\ LabelThere(toEncode[k], a, q.str, m)
         /\ Content([from |-> p.pos + 1, size |-> m]) = LabelAt(toEncode[k], a)
         /\ [pos |-> p.pos + m + 1, str |-> SubSeq(q.str, m + 2, Len(q.str)), of |-> q.of] \in S
<1>1. /\ msg \in Seq(Octets) /\ S \subseteq Piece /\ q \in S /\ q.pos = p.pos /\ p.pos \in Nat
      /\ toEncode[k] \in Strings /\ Border(toEncode[k], a) /\ q.str = Rest(toEncode[k], a)
  BY ReaderThere DEF ReadingAt
<1>2. /\ m \in 1 .. MaxLabel /\ Begins(q.str, m) /\ p.pos + m < Len(msg)
      /\ \A n \in 1 .. m : Octet(p.pos + n) = q.str[n]
      /\ [pos |-> p.pos + m + 1, str |-> SubSeq(q.str, m + 2, Len(q.str)), of |-> q.of] \in S
  BY <1>1 DEF LabelPiece
<1>3. m \in Nat /\ m >= 1 /\ m <= Len(q.str) /\ q.str \in Strings
  BY <1>1, <1>2, NameLimits DEF Begins, Piece
<1>4. PICK string, s : string = toEncode[k] /\ s = q.str
  OBVIOUS
<1>5. LabelThere(string, a, s, m)
  BY <1>1, <1>2, <1>4, LabelBegun
<1>6. Content([from |-> p.pos + 1, size |-> m]) = SubSeq(s, 1, m)
  BY <1>1, <1>2, <1>3, <1>4, LabelContent
<1>7. LabelAt(string, a) = SubSeq(s, 1, m)
  BY <1>5 DEF LabelThere
<1> QED
  BY <1>2, <1>3, <1>4, <1>5, <1>6, <1>7

LEMMA EchoTakeLabel ==
  ASSUME NameInv, NEW S, StoredIn(S), stage = "parse" => ReadingIn(p, S), TakeLabel, toEncode # <<>>
  PROVE  EchoInv'
<1>1. PICK o, c, l, one : /\ o = Octet(p.pos) /\ l = NameLen /\ one = [from |-> p.pos + 1, size |-> o]
                          /\ c = IF p.firstPtr THEN Uint8(p.consume + (o + 1)) ELSE p.consume
  OBVIOUS
<1>2. /\ stage = "parse" /\ ~HasPointer(p.pos, p.lim) /\ l <= MaxName
      /\ UNCHANGED <<toEncode, at, nodes, starts, msg, walked>>
      /\ \/ /\ o # 0 /\ stage' = "parse"
            /\ p' = [p EXCEPT !.pos = @ + (o + 1), !.first = NoPointer, !.consume = c, !.len = l,
                              !.labels = Append(@, one)]
         \/ /\ o = 0 /\ stage' = "walk"
            /\ p' = [p EXCEPT !.pos = p.start, !.consume = c, !.len = l]
  BY <1>1 DEF TakeLabel, AtLabel
<1>3. PICK k, a, q : ReadingAt(p, S, k, a, q)
  BY <1>2 DEF ReadingIn
<1>4. /\ msg \in Seq(Octets) /\ p \in Parses /\ p.lim = Len(msg) /\ Len(msg) \in Nat
      /\ S \subseteq Piece /\ q \in S /\ q.pos = p.pos /\ p.pos \in Nat /\ Filled(q, S)
      /\ k \in 1 .. Len(starts) /\ toEncode[k] \in Strings /\ Border(toEncode[k], a) /\ a \in Nat \ {0}
      /\ p.start \in Nat /\ p.len \in Nat /\ p.len = a - 1 /\ p.labels \in Seq(Label)
      /\ p.firstPtr => p.pos = p.start + p.len /\ p.consume = Uint8(p.len)
  BY <1>2, <1>3, ReaderThere
<1>5. p.pos < Len(msg) /\ (LabelPiece(q, S) \/ RootPiece(q)) /\ ~(LabelPiece(q, S) /\ o = 0) /\ ~(RootPiece(q) /\ o # 0)
  BY <1>1, <1>2, <1>4, PieceRead DEF Filled
<1>6. o \in Nat /\ l = p.len + o + 1 /\ l \in Nat
  <2>1. o \in Nat
    BY <1>1, <1>4, <1>5, OctetType
  <2> QED
    BY <1>1, <1>4, <2>1 DEF NameLen
<1>7. p.firstPtr => c = Uint8(l)
  <2> SUFFICES ASSUME p.firstPtr PROVE c = Uint8(l)
    OBVIOUS
  <2>1. PICK span : span = o + 1
    OBVIOUS
  <2>2. span \in Nat /\ p.len + span = l
    BY <1>4, <1>6, <2>1
  <2>3. Uint8(Uint8(p.len) + span) = Uint8(p.len + span)
    BY <1>4, <2>2, Uint8Sum
  <2> QED
    BY <1>1, <1>4, <2>1, <2>2, <2>3
<1>8. PICK x, string : x = p' /\ string = toEncode[k]
  OBVIOUS
<1>9. ASSUME ~p.firstPtr
      PROVE  \E e \in Nat : /\ NameEndsAt(e, k) /\ p.consume = Uint8(e - p.start) /\ p.start <= e /\ e - p.start <= l
                            /\ e - p.start <= p.len \/ LabelPiece(q, S)
  <2>1. PICK e \in Nat : /\ NameEndsAt(e, k) /\ p.consume = Uint8(e - p.start) /\ p.start <= e
                         /\ \/ e - p.start <= p.len
                            \/ e - p.start = p.len + 2 /\ LabelPiece(q, S)
    BY <1>3, <1>9 DEF ReadingAt
  <2>2. LabelPiece(q, S) => o # 0
    BY <1>5
  <2>3. e - p.start <= l
    BY <1>4, <1>6, <2>1, <2>2
  <2> QED
    BY <2>1, <2>3
<1>10. CASE o # 0
  <2>1. LabelPiece(q, S)
    BY <1>5, <1>10
  <2>2. /\ o \in 1 .. MaxLabel /\ o >= 1 /\ p.pos + o < Len(msg)
        /\ LabelThere(string, a, q.str, o) /\ Content(one) = LabelAt(string, a)
        /\ [pos |-> p.pos + o + 1, str |-> SubSeq(q.str, o + 2, Len(q.str)), of |-> q.of] \in S
    BY <1>1, <1>2, <1>3, <1>8, <2>1, LabelRead, SMTT(30)
  <2>3. one \in Label
    BY <1>1, <1>4, <1>6, SMTT(30) DEF Label
  <2>4. PICK more, y, b : /\ more = Append(p.labels, one) /\ b = a + o + 1
                          /\ y = [pos |-> p.pos + o + 1, str |-> SubSeq(q.str, o + 2, Len(q.str)), of |-> q.of]
    OBVIOUS
  <2>5. x = [p EXCEPT !.pos = @ + (o + 1), !.first = NoPointer, !.consume = c, !.len = l, !.labels = more]
        /\ stage' = "parse"
    BY <1>2, <1>8, <1>10, <2>4
  <2>6. /\ x.start = p.start /\ x.pos = p.pos + o + 1 /\ x.first = NoPointer /\ x.consume = c /\ x.len = l
        /\ x.labels = more /\ x.firstPtr = p.firstPtr
    <3>1. /\ x.start = p.start /\ x.pos = p.pos + (o + 1) /\ x.first = NoPointer /\ x.consume = c /\ x.len = l
          /\ x.labels = more /\ x.firstPtr = p.firstPtr
      BY <1>4, <2>5 DEF Parses
    <3>2. p.pos \in Nat /\ o \in Nat
      BY <1>4, <1>6
    <3>3. p.pos + (o + 1) = p.pos + o + 1
      BY <3>2
    <3> QED
      BY <3>1, <3>3
  <2>7. /\ a \in LabelStarts(string) /\ Border(string, b) /\ Rest(string, b) = y.str
        /\ \A i \in LabelStarts(string) : ~(a < i /\ i < b)
    BY <2>2, <2>4 DEF LabelThere
  <2>8. a < b /\ b \in Nat /\ l = b - 1
    BY <1>4, <1>6, <2>4
  <2>9. Spelled(string, b, more)
    <3>1. Spelled(string, a, p.labels) /\ string \in Strings
      BY <1>3, <1>4, <1>8 DEF ReadingAt
    <3> QED
      BY <1>4, <2>2, <2>3, <2>4, <2>7, <2>8, <3>1, SpelledOn
  <2>10. y \in S /\ y.pos = x.pos /\ y.of = q.of
    BY <2>2, <2>4, <2>6
  <2>11. ~x.firstPtr =>
           \E e \in Nat : /\ NameEndsAt(e, k) /\ x.consume = Uint8(e - x.start) /\ x.start <= e
                          /\ \/ e - x.start <= x.len
                             \/ e - x.start = x.len + 2 /\ LabelPiece(y, S)
    <3> SUFFICES ASSUME ~x.firstPtr
                 PROVE  \E e \in Nat : /\ NameEndsAt(e, k) /\ x.consume = Uint8(e - x.start) /\ x.start <= e
                                       /\ e - x.start <= x.len
      OBVIOUS
    <3>1. ~p.firstPtr /\ c = p.consume
      BY <1>1, <2>6
    <3> QED
      BY <1>9, <2>6, <3>1
  <2>12. ReadingAt(x, S, k, b, y)
    BY <1>3, <1>8, <2>6, <2>7, <2>8, <2>9, <2>10, <2>11 DEF ReadingAt
  <2>13. ReadingIn(x, S)
    BY <2>12 DEF ReadingIn
  <2>14. StoredIn(S)' /\ ReadingIn(x, S)'
    BY <1>2, <2>5, <2>13, SameStore
  <2>15. ReadingIn(p, S)'
    BY <1>8, <2>14
  <2> QED
    BY <1>2, <2>5, <2>14, <2>15 DEF EchoInv
<1>11. CASE o = 0
  <2>1. RootPiece(q) /\ ~LabelPiece(q, S)
    BY <1>5, <1>11
  <2>2. x = [p EXCEPT !.pos = p.start, !.consume = c, !.len = l] /\ stage' = "walk"
    BY <1>2, <1>8, <1>11
  <2>3. x.start = p.start /\ x.consume = c /\ x.labels = p.labels
    BY <1>4, <2>2 DEF Parses
  <2>4. q.str = <<>> /\ NameEndsAt(p.pos + 1, q.of)
    BY <1>4, <2>1 DEF RootPiece
  <2>5. \A i \in LabelStarts(string) : i < a
    <3>1. Rest(string, a) = <<>> /\ string \in Strings /\ Border(string, a)
      BY <1>3, <1>4, <1>8, <2>4 DEF ReadingAt
    <3> QED
      BY <3>1, NameEndsThere
  <2>6. [n \in DOMAIN p.labels |-> Content(p.labels[n])] = SplitIntoLabels(string)
    <3>1. Spelled(string, a, p.labels) /\ string \in Strings
      BY <1>3, <1>4, <1>8 DEF ReadingAt
    <3>2. PICK labels : labels = p.labels
      OBVIOUS
    <3>3. [n \in DOMAIN labels |-> Content(labels[n])] = SplitIntoLabels(string)
      BY <1>4, <2>5, <3>1, <3>2, SpelledAll
    <3> QED
      BY <3>2, <3>3
  <2>7. NameEndsAt(p.start + c, k)
    <3>1. CASE p.firstPtr
      <4>1. q.of = k /\ p.pos = p.start + p.len
        BY <1>3, <1>4, <3>1 DEF ReadingAt
      <4>2. c = l
        BY <1>2, <1>6, <1>7, <3>1, Uint8Small
      <4>3. p.pos + 1 = p.start + c
        BY <1>4, <1>6, <1>11, <4>1, <4>2
      <4> QED
        BY <2>4, <4>1, <4>3
    <3>2. CASE ~p.firstPtr
      <4>1. PICK e \in Nat : /\ NameEndsAt(e, k) /\ p.consume = Uint8(e - p.start) /\ p.start <= e /\ e - p.start <= l
        BY <1>9, <3>2
      <4>2. e - p.start \in Nat /\ e - p.start <= MaxName
        <5>1. /\ p.start \in Nat /\ l \in Nat /\ l <= MaxName /\ MaxName \in Nat
              /\ p.start <= e /\ e - p.start <= l
          BY <1>2, <1>4, <1>6, <4>1, NameLimits
        <5> QED
          BY <5>1
      <4>3. Uint8(e - p.start) = e - p.start
        BY <4>2, Uint8Small
      <4>4. c = p.consume
        BY <1>1, <3>2
      <4>5. p.start + c = e
        BY <1>4, <4>1, <4>3, <4>4
      <4> QED
        BY <4>1, <4>5
    <3> QED
      BY <3>1, <3>2
  <2>8. ReadBack(x)
    <3>1. starts[k] = x.start
      BY <1>3, <2>3 DEF ReadingAt
    <3> QED
      BY <1>4, <1>8, <2>3, <2>6, <2>7, <3>1 DEF ReadBack
  <2>9. StoredIn(S)' /\ ReadBack(x)'
    BY <1>2, <2>2, <2>8, SameStore
  <2>10. ReadBack(p)'
    BY <1>8, <2>9
  <2> QED
    BY <1>2, <2>2, <2>9, <2>10 DEF EchoInv
<1> QED
  BY <1>10, <1>11

(* The reader gives up on a name that is too long only. *)
LEMMA EchoLabelFails ==
  ASSUME NameInv, NEW S, StoredIn(S), stage = "parse" => ReadingIn(p, S), LabelFails, stage # "refused"
  PROVE  EchoInv'
<1>1. /\ stage = "parse" /\ stage' = "failed" /\ UNCHANGED <<toEncode, at, nodes, starts, msg, p, walked>>
      /\ \/ AtLabel /\ (~LabelDecodes \/ NameLen > MaxName)
         \/ p.pos >= p.lim
  BY DEF LabelFails, AtLabel, Fail
<1>2. PICK k, a, q : ReadingAt(p, S, k, a, q)
  BY <1>1 DEF ReadingIn
<1>3. /\ msg \in Seq(Octets) /\ p.lim = Len(msg) /\ Len(msg) \in Nat
      /\ S \subseteq Piece /\ q \in S /\ q.pos = p.pos /\ p.pos \in Nat /\ Filled(q, S)
      /\ k \in 1 .. Len(starts) /\ toEncode[k] \in Strings /\ Border(toEncode[k], a) /\ a \in Nat \ {0}
      /\ p.len \in Nat /\ p.len = a - 1
  BY <1>1, <1>2, ReaderThere
<1>4. p.pos < Len(msg)
  BY <1>3, PieceRead
<1>5. AtLabel /\ (~LabelDecodes \/ NameLen > MaxName)
  BY <1>1, <1>3, <1>4
<1>6. PICK m, string, s, L : m = Octet(p.pos) /\ string = toEncode[k] /\ s = q.str /\ L = Len(WithoutLastDot(string))
  OBVIOUS
<1>7. L \in Nat
  BY <1>3, <1>6, DotDropped
<1>8. L + 2 > MaxName
  <2>1. CASE LabelPiece(q, S)
    <3>1. m \in 1 .. MaxLabel /\ m \in Nat /\ p.pos + m < Len(msg) /\ LabelThere(string, a, s, m)
      BY <1>1, <1>2, <1>6, <2>1, LabelRead
    <3>2. a + m <= L + 1
      BY <1>6, <3>1 DEF LabelThere
    <3>3. m <= MaxLabel /\ p.lim - p.pos >= m + 1
      BY <1>3, <3>1, NameLimits
    <3>4. p.len + m + 1 > MaxName
      BY <1>5, <1>6, <3>3 DEF LabelDecodes, NameLen
    <3>5. m \in Nat /\ MaxName \in Nat /\ a \in Nat /\ p.len = a - 1
      BY <1>3, <3>1, NameLimits
    <3>6. a + m > MaxName
      BY <3>4, <3>5
    <3> QED
      BY <1>7, <3>2, <3>5, <3>6
  <2>2. CASE RootPiece(q)
    <3>1. m = 0
      BY <1>3, <1>6, <2>2, PieceRead
    <3>2. m <= MaxLabel /\ p.lim - p.pos >= m + 1
      BY <1>3, <1>4, <3>1, NameLimits
    <3>3. p.len + m + 1 > MaxName
      BY <1>5, <1>6, <3>2 DEF LabelDecodes, NameLen
    <3>4. a <= L + 2
      BY <1>3, <1>6, NameEndsThere
    <3>5. MaxName \in Nat /\ a \in Nat /\ p.len = a - 1
      BY <1>3, NameLimits
    <3>6. a > MaxName
      BY <3>1, <3>3, <3>5
    <3> QED
      BY <1>7, <3>4, <3>5, <3>6
  <2>3. CASE PointerPiece(q, S)
    <3>1. HasPointer(p.pos, p.lim)
      BY <1>3, <2>3, PieceRead
    <3> QED
      BY <1>5, <3>1 DEF AtLabel
  <2> QED
    BY <1>3, <2>1, <2>2, <2>3 DEF Filled
<1>9. TooLong(p)
  <2>1. starts[k] = p.start
    BY <1>2 DEF ReadingAt
  <2> QED
    BY <1>3, <1>6, <1>8, <2>1 DEF TooLong
<1>10. PICK x : x = p
  OBVIOUS
<1>11. StoredIn(S)' /\ TooLong(x)'
  BY <1>1, <1>9, <1>10, SameStore
<1>12. TooLong(p)'
  BY <1>1, <1>10, <1>11
<1> QED
  BY <1>1, <1>11, <1>12 DEF EchoInv

(* The iterator leaves the name where it is. *)
LEMMA EchoWalk ==
  ASSUME NameInv, EchoInv, WalkPointer \/ WalkLabel \/ WalkEnds
  PROVE  EchoInv'
<1>1. /\ stage = "walk" /\ stage' \in {"walk", "done"} /\ UNCHANGED <<toEncode, at, nodes, starts, msg>>
      /\ p' = p \/ \E n : p' = [p EXCEPT !.pos = n]
  BY DEF WalkPointer, WalkLabel, WalkEnds
<1>2. p \in Parses
  BY DEF NameInv
<1>3. PICK x : x = p'
  OBVIOUS
<1>4. x.start = p.start /\ x.consume = p.consume /\ x.labels = p.labels
  BY <1>1, <1>2, <1>3 DEF Parses
<1> SUFFICES ASSUME toEncode # <<>> PROVE EchoInv'
  BY <1>1 DEF EchoInv
<1>5. PICK S : StoredIn(S)
  BY <1>1 DEF EchoInv
<1>6. ReadBack(x)
  BY <1>1, <1>4 DEF EchoInv, ReadBack
<1>7. StoredIn(S)' /\ ReadBack(x)'
  BY <1>1, <1>5, <1>6, SameStore
<1>8. ReadBack(p)'
  BY <1>3, <1>7
<1> QED
  BY <1>1, <1>7, <1>8 DEF EchoInv

LEMMA EchoReadNext ==
  ASSUME NameInv, NEW S, StoredIn(S), ReadNext
  PROVE  EchoInv'
<1>1. PICK i, n : i = p.start + p.consume /\ n = Len(msg)
  OBVIOUS
<1>2. /\ stage = "done" /\ stage' = "parse" /\ p' = ParseFrom(i, n) /\ UNCHANGED <<toEncode, at, nodes, starts, msg>>
      /\ \E k \in DOMAIN starts : starts[k] = i
  BY <1>1 DEF ReadNext
<1>3. i \in Nat /\ n \in Nat /\ starts \in Seq(Nat)
  BY <1>1 DEF NameInv, Parses
<1>4. PICK k \in DOMAIN starts : starts[k] = i
  BY <1>2
<1>5. k \in 1 .. Len(starts')
  BY <1>2, <1>3
<1>6. StoredIn(S)'
  BY <1>2, SameStore
<1>7. ReadingIn(p, S)'
  BY <1>2, <1>3, <1>4, <1>5, <1>6, ReadingStarts
<1> QED
  BY <1>2, <1>6, <1>7 DEF EchoInv

LEMMA EchoInvImplies ==
  ASSUME NameInv, EchoInv
  PROVE  EchoDecodes
<1> SUFFICES ASSUME toEncode # <<>>, stage \in {"done", "failed"} PROVE EchoDecodes
  BY DEF EchoDecodes
<1>1. PICK S : StoredIn(S)
  BY DEF EchoInv
<1>2. starts \in Seq(Nat) /\ DOMAIN starts = 1 .. Len(starts)
  BY <1>1 DEF StoredIn
<1>3. CASE stage = "done"
  <2>1. PICK k \in 1 .. Len(starts) :
          /\ starts[k] = p.start /\ NameEndsAt(p.start + p.consume, k)
          /\ [n \in DOMAIN p.labels |-> Content(p.labels[n])] = SplitIntoLabels(toEncode[k])
    BY <1>3 DEF EchoInv, ReadBack
  <2>2. walked = p.labels
    BY <1>3 DEF NameInv, Walked
  <2>3. [n \in DOMAIN walked |-> SubSeq(msg, walked[n].from + 1, walked[n].from + walked[n].size)]
          = SplitIntoLabels(toEncode[k])
    BY <2>1, <2>2 DEF Content
  <2>4. p.start + p.consume = IF k < Len(starts) THEN starts[k + 1] ELSE Len(msg)
    BY <2>1 DEF NameEndsAt
  <2> QED
    BY <1>2, <1>3, <2>1, <2>3, <2>4 DEF EchoDecodes
<1>4. CASE stage = "failed"
  <2>1. PICK k \in 1 .. Len(starts) :
          starts[k] = p.start /\ Len(WithoutLastDot(toEncode[k])) + 2 > MaxName
    BY <1>4 DEF EchoInv, TooLong
  <2> QED
    BY <1>2, <1>4, <2>1 DEF EchoDecodes
<1> QED
  BY <1>3, <1>4

LEMMA EchoStep ==
  ASSUME NameInv, EchoInv, [NameNext]_nameVars
  PROVE  EchoInv'
<1>1. CASE UNCHANGED nameVars
  <2>1. UNCHANGED <<stage, toEncode, at, nodes, starts, msg, p, walked>>
    BY <1>1 DEF nameVars
  <2>2. PICK x : x = p
    OBVIOUS
  <2>3. CASE stage # "refused" /\ toEncode # <<>>
    <3>1. PICK S : StoredIn(S) /\ (stage = "parse" => ReadingIn(x, S))
      BY <2>2, <2>3 DEF EchoInv
    <3>2. (stage \in {"walk", "done"} => ReadBack(x)) /\ (stage = "failed" => TooLong(x))
      BY <2>2, <2>3 DEF EchoInv
    <3>3. /\ StoredIn(S)' /\ (ReadingIn(x, S) => ReadingIn(x, S)')
          /\ (ReadBack(x) => ReadBack(x)') /\ (TooLong(x) => TooLong(x)')
      BY <2>1, <3>1, SameStore
    <3>4. /\ (ReadingIn(x, S) => ReadingIn(p, S)')
          /\ (ReadBack(x) => ReadBack(p)') /\ (TooLong(x) => TooLong(p)')
      BY <2>1, <2>2, <3>3
    <3> QED
      BY <2>1, <2>3, <3>1, <3>2, <3>3, <3>4 DEF EchoInv
  <2>4. CASE ~(stage # "refused" /\ toEncode # <<>>)
    BY <2>1, <2>4 DEF EchoInv
  <2> QED
    BY <2>3, <2>4
<1>2. CASE stage = "idle" /\ \E list \in NameLists : Encode(list)
  BY <1>2, EchoEncode
<1>3. CASE stage = "idle" /\ \E m \in Messages, start \in Starts : Parse(m, start)
  BY <1>3 DEF Parse, EchoInv
<1>4. CASE EncodeFails
  BY <1>4 DEF EncodeFails, EchoInv
<1>5. CASE NameTurn /\ ~EncodeFails
  <2>1. stage \notin {"idle", "refused"} /\ stage' # "idle" /\ toEncode' = toEncode
    BY <1>5 DEF NameTurn, WritePointer, WriteLabel, WriteRoot, Writable, NameWritten, PointerFails, FollowPointer,
                LabelFails, TakeLabel, AtLabel, WalkPointer, WalkLabel, WalkEnds, ReadNext, Fail
  <2>2. CASE toEncode = <<>>
    BY <2>1, <2>2 DEF EchoInv
  <2>3. CASE toEncode # <<>>
    <3>1. PICK S : StoredIn(S) /\ (stage = "parse" => ReadingIn(p, S))
      BY <2>1, <2>3 DEF EchoInv
    <3>2. CASE WritePointer
      BY <3>1, <3>2, EchoWritePointer
    <3>3. CASE WriteLabel
      BY <3>1, <3>3, EchoWriteLabel
    <3>4. CASE WriteRoot
      BY <3>1, <3>4, EchoWriteRoot
    <3>5. CASE PointerFails
      BY <3>1, <3>5, EchoPointerFails
    <3>6. CASE FollowPointer
      BY <2>3, <3>1, <3>6, EchoFollowPointer
    <3>7. CASE LabelFails
      BY <2>1, <3>1, <3>7, EchoLabelFails
    <3>8. CASE TakeLabel
      BY <2>3, <3>1, <3>8, EchoTakeLabel
    <3>9. CASE WalkPointer \/ WalkLabel \/ WalkEnds
      BY <3>9, EchoWalk
    <3>10. CASE ReadNext
      BY <3>1, <3>10, EchoReadNext
    <3> QED
      BY <1>5, <3>2, <3>3, <3>4, <3>5, <3>6, <3>7, <3>8, <3>9, <3>10 DEF NameTurn
  <2> QED
    BY <2>2, <2>3
<1> QED
  BY <1>1, <1>2, <1>3, <1>4, <1>5 DEF NameNext

(* Every name that encode_domain_name() accepts is read back label by label *)
(* and to its very end, whatever names are encoded into the message,        *)
(* whichever of their rests are found in the compression map, and whichever *)
(* nodes it had no memory for.                                              *)
THEOREM EncodedNamesDecode == NameSpec => []EchoDecodes
<1>1. NameInit => NameInv /\ EchoInv
  BY NameInitInv DEF NameInit, EchoInv
<1>2. NameInv /\ EchoInv /\ [NameNext]_nameVars => NameInv' /\ EchoInv'
  BY NameNextStep, EchoStep
<1>3. NameInv /\ EchoInv => EchoDecodes
  BY EchoInvImplies
<1> QED
  BY <1>1, <1>2, <1>3, PTL DEF NameSpec

-----------------------------------------------------------------------------
(* The hosts file. *)

(* The first place from i on that does not pass. *)
LEMMA ScanStops ==
  ASSUME NEW i \in Nat, NEW end \in Nat, i <= end, NEW Pass
  PROVE  \E j \in i .. end : (\A k \in i .. j - 1 : k \in Pass) /\ (j = end \/ j \notin Pass)
<1> DEFINE J == {j \in i .. end : j = end \/ j \notin Pass}
<1>1. J \subseteq Nat /\ end \in J
  OBVIOUS
<1>2. PICK m \in J : \A j \in J : m <= j
  <2> HIDE DEF J
  <2> QED
    BY <1>1, LeastNat
<1>3. m \in i .. end /\ (m = end \/ m \notin Pass)
  OBVIOUS
<1>4. ASSUME NEW k \in i .. m - 1, k \notin Pass PROVE FALSE
  <2>1. k \in J /\ k < m /\ k \in Nat /\ m \in Nat
    BY <1>3, <1>4
  <2> HIDE DEF J
  <2>2. m <= k
    BY <1>2, <2>1
  <2> QED
    BY <2>1, <2>2
<1> QED
  BY <1>3, <1>4

(* skip_ws() and skip_line() stop at the first character that is not to be  *)
(* skipped, find_next_ws() at the first that is a delimiter.                *)
LEMMA SkipAllStops ==
  ASSUME NEW i \in Nat, NEW end \in Nat, NEW L \in i .. end - 1, NEW cs, file[L] \notin cs
  PROVE  LET it == SkipAll(i, end, cs)
         IN it \in i .. L /\ (\A k \in i .. it - 1 : file[k] \in cs) /\ file[it] \notin cs
<1> DEFINE Stop(j) == (\A k \in i .. j - 1 : file[k] \in cs) /\ (j = end \/ file[j] \notin cs)
           it == SkipAll(i, end, cs)
           Pass == {k \in i .. end : file[k] \in cs}
<1>1. \E j \in i .. end : (\A k \in i .. j - 1 : k \in Pass) /\ (j = end \/ j \notin Pass)
  <2>1. i <= end
    OBVIOUS
  <2> HIDE DEF Pass
  <2> QED
    BY <2>1, ScanStops
<1>2. \E j \in i .. end : Stop(j)
  BY <1>1
<1>3. it = CHOOSE j \in i .. end : Stop(j)
  BY DEF SkipAll
<1> HIDE DEF it
<1>4. it \in i .. end /\ Stop(it)
  <2> HIDE DEF Stop
  <2> QED
    BY <1>2, <1>3
<1>5. it <= L
  <2> SUFFICES ASSUME L < it PROVE FALSE
    BY <1>4
  <2>1. L \in i .. it - 1
    BY <1>4
  <2> QED
    BY <1>4, <2>1
<1>6. it # end
  BY <1>4, <1>5
<1> QED
  BY <1>4, <1>5, <1>6 DEF it

LEMMA FindStops ==
  ASSUME NEW i \in Nat, NEW end \in Nat, NEW L \in i .. end - 1, file[L] \in Delimiters
  PROVE  LET it == FindNextWs(i, end)
         IN it \in i .. L /\ (\A k \in i .. it - 1 : file[k] \notin Delimiters) /\ file[it] \in Delimiters
<1> DEFINE Stop(j) == (\A k \in i .. j - 1 : file[k] \notin Delimiters) /\ (j = end \/ file[j] \in Delimiters)
           it == FindNextWs(i, end)
           Pass == {k \in i .. end : file[k] \notin Delimiters}
<1>1. \E j \in i .. end : (\A k \in i .. j - 1 : k \in Pass) /\ (j = end \/ j \notin Pass)
  <2>1. i <= end
    OBVIOUS
  <2> HIDE DEF Pass
  <2> QED
    BY <2>1, ScanStops
<1>2. \E j \in i .. end : Stop(j)
  BY <1>1
<1>3. it = CHOOSE j \in i .. end : Stop(j)
  BY DEF FindNextWs
<1> HIDE DEF it
<1>4. it \in i .. end /\ Stop(it)
  <2> HIDE DEF Stop
  <2> QED
    BY <1>2, <1>3
<1>5. it <= L
  <2> SUFFICES ASSUME L < it PROVE FALSE
    BY <1>4
  <2>1. L \in i .. it - 1
    BY <1>4
  <2> QED
    BY <1>4, <2>1
<1>6. it # end
  BY <1>4, <1>5
<1> QED
  BY <1>4, <1>5, <1>6 DEF it

(* A line from its first character to its line feed. *)
LineAt(ls, L) ==
  /\ ls \in 1 .. L /\ L \in ls .. Len(file)
  /\ file[L] = NewLine /\ \A k \in ls .. L - 1 : file[k] # NewLine
  /\ ls = 1 \/ file[ls - 1] = NewLine
  /\ L - ls + 1 < BufSize

BeginsLine(i) == i = 1 \/ file[i - 1] = NewLine

LEMMA MaxNat ==
  ASSUME NEW n \in Nat, NEW S, S \subseteq 0 .. n, S # {}
  PROVE  Max(S) \in S /\ \A k \in S : k <= Max(S)
<1> DEFINE R == {n - k : k \in S}
<1>1. R \subseteq Nat /\ R # {}
  <2>1. \A k \in S : n - k \in Nat
    OBVIOUS
  <2>2. PICK k \in S : TRUE
    OBVIOUS
  <2>3. n - k \in R
    OBVIOUS
  <2> QED
    BY <2>1, <2>3
<1>2. PICK r \in R : \A q \in R : r <= q
  <2> HIDE DEF R
  <2> QED
    BY <1>1, LeastNat
<1>3. PICK m \in S : r = n - m
  OBVIOUS
<1>4. \A k \in S : m >= k
  <2> SUFFICES ASSUME NEW k \in S PROVE m >= k
    OBVIOUS
  <2>1. n - k \in R
    OBVIOUS
  <2> HIDE DEF R
  <2>2. r <= n - k
    BY <1>2, <2>1
  <2> QED
    BY <1>3, <2>2
<1>5. Max(S) = CHOOSE x \in S : \A y \in S : x >= y
  BY DEF Max
<1>6. Max(S) \in S /\ \A y \in S : Max(S) >= y
  BY <1>4, <1>5
<1> QED
  BY <1>6

LEMMA LineStartIs ==
  ASSUME NEW ls, NEW L, LineAt(ls, L), NEW i \in ls .. L, Len(file) \in Nat
  PROVE  LineStart(i) = ls
<1> DEFINE S == {1} \cup {j + 1 : j \in {k \in 1 .. i - 1 : file[k] = NewLine}}
           m == Max(S)
<1>1. /\ ls \in Nat /\ L \in Nat /\ ls >= 1 /\ i \in Nat /\ ls <= i /\ i <= L /\ (ls = 1 \/ file[ls - 1] = NewLine)
      /\ \A k \in ls .. L - 1 : file[k] # NewLine
  BY DEF LineAt
<1>2. S \subseteq 0 .. i /\ 1 \in S
  BY <1>1
<1>3. ls \in S
  <2>1. CASE ls = 1
    BY <2>1
  <2>2. CASE ls # 1
    <3>1. ls - 1 \in 1 .. i - 1 /\ file[ls - 1] = NewLine /\ (ls - 1) + 1 = ls
      BY <1>1, <2>2
    <3>2. ls - 1 \in {k \in 1 .. i - 1 : file[k] = NewLine}
      BY <3>1
    <3> QED
      BY <3>1, <3>2
  <2> QED
    BY <2>1, <2>2
<1>4. \A s \in S : s <= ls
  <2> SUFFICES ASSUME NEW s \in S, s > ls PROVE FALSE
    BY <1>1, <1>2
  <2>1. PICK j \in 1 .. i - 1 : file[j] = NewLine /\ s = j + 1
    BY <1>1
  <2>2. j \in ls .. L - 1
    BY <1>1, <2>1
  <2> QED
    BY <1>1, <2>1, <2>2
<1>5. m \in S /\ \A s \in S : s <= m
  <2> HIDE DEF S
  <2> QED
    BY <1>1, <1>2, MaxNat
<1>6. m = ls
  <2>1. m <= ls /\ ls <= m /\ m \in Int
    <3>1. S \subseteq Int
      BY <1>1
    <3> HIDE DEF S, m
    <3> QED
      BY <1>3, <1>4, <1>5, <3>1
  <2> QED
    BY <1>1, <2>1
<1> QED
  BY <1>6 DEF LineStart

(* Every character of an ordinary file is in a line. *)
LEMMA LineBegins ==
  ASSUME Ordinary, file \in Seq(STRING), NEW i \in 1 .. Len(file), BeginsLine(i)
  PROVE  \E L \in i .. Len(file) : LineAt(i, L)
<1> DEFINE F == {k \in i .. Len(file) : file[k] = NewLine}
           L == LineEnd(i)
<1>1. Len(file) \in Nat /\ file # <<>> /\ file[Len(file)] = NewLine
  BY DEF Ordinary, Last
<1>2. F \subseteq Nat /\ F # {}
  BY <1>1
<1>3. Min(F) \in F /\ \A n \in F : Min(F) <= n
  <2> HIDE DEF F
  <2> QED
    BY <1>2, MinNat
<1>4. L = Min(F)
  BY DEF LineEnd
<1> HIDE DEF L
<1>5. L \in i .. Len(file) /\ file[L] = NewLine
  BY <1>3, <1>4
<1>6. \A k \in i .. L - 1 : file[k] # NewLine
  <2> SUFFICES ASSUME NEW k \in i .. L - 1, file[k] = NewLine PROVE FALSE
    OBVIOUS
  <2>1. k \in F /\ k < L
    BY <1>1, <1>5
  <2>2. L <= k
    BY <1>3, <1>4, <2>1
  <2> QED
    BY <1>5, <2>1, <2>2
<1>7. LineStart(i) = i
  <2> DEFINE S == {1} \cup {j + 1 : j \in {k \in 1 .. i - 1 : file[k] = NewLine}}
  <2>1. S \subseteq 0 .. i /\ i \in S
    <3>1. S \subseteq 0 .. i
      OBVIOUS
    <3>2. CASE i = 1
      BY <3>1, <3>2
    <3>3. CASE i # 1
      <4>1. i - 1 \in {k \in 1 .. i - 1 : file[k] = NewLine} /\ (i - 1) + 1 = i
        BY <3>3 DEF BeginsLine
      <4> QED
        BY <3>1, <4>1
    <3> QED
      BY <3>2, <3>3
  <2>2. Max(S) \in S /\ \A s \in S : s <= Max(S)
    <3>1. i \in Nat
      BY <1>1
    <3> HIDE DEF S
    <3> QED
      BY <2>1, <3>1, MaxNat
  <2>3. Max(S) = i
    <3> DEFINE m == Max(S)
    <3>1. m \in 0 .. i /\ i <= m
      <4> HIDE DEF S, m
      <4>1. m \in S /\ \A s \in S : s <= m
        BY <2>2 DEF m
      <4> QED
        BY <2>1, <4>1
    <3> HIDE DEF m
    <3>2. m = i
      BY <3>1
    <3> QED
      BY <3>2 DEF m
  <2> QED
    BY <2>3 DEF LineStart
<1>8. L - i + 1 < BufSize
  <2>1. i \in DOMAIN file
    BY <1>1
  <2>2. LineEnd(i) - LineStart(i) + 1 < BufSize
    BY <2>1 DEF Ordinary
  <2> QED
    BY <1>7, <2>2 DEF L
<1>9. LineAt(i, L)
  BY <1>1, <1>5, <1>6, <1>8 DEF LineAt, BeginsLine
<1> QED
  BY <1>5, <1>9

(* Words of the file that give the sought name an address, by their place. *)
GivenBefore(q) == {w \in Given : w[1] < q}
GivenRank(w) == Cardinality({v \in Given : v[1] <= w[1]})

(* Up to q everything is found, and nothing else. *)
FoundUpTo(q, f) ==
  /\ Len(f) = Cardinality(GivenBefore(q))
  /\ \A w \in GivenBefore(q) : f[GivenRank(w)] = AddressOf(w)

LEMMA GivenType ==
  ASSUME Len(file) \in Nat
  PROVE  /\ IsFiniteSet(Given)
         /\ \A w \in Given : /\ w[1] \in 1 .. Len(file) /\ w[2] \in 1 .. Len(file) /\ w[1] <= w[2]
                             /\ w = <<w[1], w[2]>> /\ IsWord(w[1], w[2]) /\ Gives(w)
<1> DEFINE N == 1 .. Len(file)
<1>1. Given \subseteq N \X N /\ \A w \in Given : w[1] <= w[2] /\ IsWord(w[1], w[2]) /\ Gives(w)
  BY DEF Given, Words
<1>2. IsFiniteSet(N)
  BY FS_Interval
<1>3. IsFiniteSet(N \X N)
  <2> HIDE DEF N
  <2> QED
    BY <1>2, FS_Product
<1>4. IsFiniteSet(Given)
  <2> HIDE DEF N
  <2> QED
    BY <1>1, <1>3, FS_Subset
<1> QED
  BY <1>1, <1>4

LEMMA NoneBetween ==
  ASSUME Len(file) \in Nat, NEW q \in Nat, NEW r \in Nat, q <= r, NEW f,
         \A w \in Given : ~(q <= w[1] /\ w[1] < r), FoundUpTo(q, f)
  PROVE  FoundUpTo(r, f)
<1>1. \A w \in Given : w[1] \in Nat
  BY GivenType
<1>2. GivenBefore(r) = GivenBefore(q)
  BY <1>1 DEF GivenBefore
<1> QED
  BY <1>2 DEF FoundUpTo

LEMMA OneBetween ==
  ASSUME Len(file) \in Nat, NEW q \in Nat, NEW r \in Nat, NEW f \in Seq(Ips), FoundUpTo(q, f),
         NEW x \in Given, q <= x[1], x[1] < r, AddressOf(x) \in Ips,
         \A w \in Given : q <= w[1] /\ w[1] < r => w = x
  PROVE  FoundUpTo(r, Append(f, AddressOf(x)))
<1> DEFINE B == GivenBefore(q)
           C == GivenBefore(r)
           g == Append(f, AddressOf(x))
<1>1. \A w \in Given : w[1] \in Nat
  BY GivenType
<1>2. C = B \cup {x} /\ x \notin B
  BY <1>1 DEF GivenBefore
<1>3. IsFiniteSet(B) /\ IsFiniteSet(C)
  <2>1. IsFiniteSet(Given) /\ B \subseteq Given /\ C \subseteq Given
    BY GivenType DEF GivenBefore
  <2> HIDE DEF B, C
  <2> QED
    BY <2>1, FS_Subset
<1>4. Cardinality(B) \in Nat /\ Cardinality(C) = Cardinality(B) + 1
  <2> HIDE DEF B, C
  <2> QED
    BY <1>2, <1>3, FS_AddElement, FS_CardinalityType
<1>5. Len(f) = Cardinality(B) /\ \A w \in B : f[GivenRank(w)] = AddressOf(w)
  BY DEF FoundUpTo
<1>6. Len(g) = Cardinality(C) /\ g[Cardinality(C)] = AddressOf(x) /\ \A k \in 1 .. Len(f) : g[k] = f[k]
  <2> HIDE DEF B, C
  <2> QED
    BY <1>4, <1>5
<1>7. GivenRank(x) = Cardinality(C)
  <2>1. {v \in Given : v[1] <= x[1]} = C
    BY <1>1, <1>2 DEF GivenBefore
  <2> QED
    BY <2>1 DEF GivenRank
<1>8. ASSUME NEW w \in B PROVE GivenRank(w) \in 1 .. Len(f)
  <2> DEFINE V == {v \in Given : v[1] <= w[1]}
  <2>1. V \subseteq B /\ w \in V
    BY <1>1 DEF GivenBefore
  <2>2. Cardinality(V) \in Nat /\ Cardinality(V) <= Cardinality(B) /\ Cardinality(V) # 0
    <3> HIDE DEF V, B
    <3>1. IsFiniteSet(V) /\ Cardinality(V) <= Cardinality(B)
      BY <1>3, <2>1, FS_Subset
    <3>2. V # {}
      BY <2>1
    <3> QED
      BY <3>1, <3>2, FS_CardinalityType, FS_EmptySet
  <2>3. GivenRank(w) = Cardinality(V)
    BY DEF GivenRank
  <2> HIDE DEF V, B
  <2> QED
    BY <1>4, <1>5, <2>2, <2>3
<1>9. \A w \in C : g[GivenRank(w)] = AddressOf(w)
  <2> HIDE DEF B, C, g
  <2> QED
    BY <1>2, <1>5, <1>6, <1>7, <1>8
<1> QED
  BY <1>6, <1>9 DEF FoundUpTo

(* A word is told by where it starts. *)
LEMMA WordEnds ==
  ASSUME NEW i \in Nat, NEW j \in Nat, NEW k \in Nat, i <= j, i <= k, IsWord(i, j), IsWord(i, k)
  PROVE  j = k
<1>1. ASSUME NEW a \in Nat, NEW b \in Nat, i <= a, IsWord(i, a), IsWord(i, b), a < b PROVE FALSE
  <2>1. a + 1 \in i .. b
    BY <1>1
  <2> QED
    BY <1>1, <2>1 DEF IsWord
<1> QED
  BY <1>1

(* The first word of a line. *)
FirstWord(ls, L, from, to) ==
  /\ LineAt(ls, L) /\ from \in ls .. L /\ to \in from .. L - 1
  /\ \A k \in ls .. from - 1 : file[k] = Blank
  /\ \A k \in from .. to : file[k] \notin Delimiters
  /\ file[to + 1] \in Delimiters

(* What a turn of the loop finds from p on: blanks, and a word or none. *)
Token(here, from, it, L) ==
  /\ from \in here .. L /\ it \in from .. L
  /\ \A k \in here .. from - 1 : file[k] = Blank
  /\ file[from] # Blank
  /\ \A k \in from .. it - 1 : file[k] \notin Delimiters
  /\ file[it] \in Delimiters

LEMMA TokenStarts ==
  ASSUME NEW here \in Nat, here >= 1, NEW L \in Nat, NEW from, NEW it, Token(here, from, it, L),
         NEW i \in Nat, NEW j \in Nat, here <= i, i <= it, i <= j, IsWord(i, j)
  PROVE  i = from /\ j = it - 1 /\ from < it
<1>1. /\ from \in here .. L /\ it \in from .. L /\ file[it] \in Delimiters
      /\ \A k \in here .. from - 1 : file[k] \in Delimiters
      /\ \A k \in from .. it - 1 : file[k] \notin Delimiters
  BY DEF Token, Delimiters
<1>2. /\ \A k \in i .. j : file[k] \notin Delimiters
      /\ i = 1 \/ file[i - 1] \in Delimiters
      /\ file[j + 1] \in Delimiters
  BY DEF IsWord
<1>3. i \in i .. j /\ file[i] \notin Delimiters
  BY <1>2
<1>4. from <= i /\ i < it
  BY <1>1, <1>3
<1>5. i = from
  <2> SUFFICES ASSUME from < i PROVE FALSE
    BY <1>1, <1>4
  <2>1. i - 1 \in from .. it - 1 /\ i # 1
    BY <1>1, <1>4
  <2> QED
    BY <1>1, <1>2, <2>1
<1>6. j < it
  <2> SUFFICES ASSUME it <= j PROVE FALSE
    BY <1>1
  <2>1. it \in i .. j
    BY <1>1, <1>4
  <2> QED
    BY <1>1, <1>2, <2>1
<1>7. j + 1 = it
  <2> SUFFICES ASSUME j + 1 < it PROVE FALSE
    BY <1>1, <1>6
  <2>1. j + 1 \in from .. it - 1
    BY <1>1, <1>5
  <2> QED
    BY <1>1, <1>2, <2>1
<1> QED
  BY <1>1, <1>4, <1>5, <1>7

LEMMA FirstIsWord ==
  ASSUME NEW ls, NEW L, NEW from, NEW to, FirstWord(ls, L, from, to), Len(file) \in Nat
  PROVE  IsWord(from, to) /\ from \in Nat /\ to \in Nat /\ from >= 1
<1>1. /\ ls \in Nat /\ ls >= 1 /\ L \in Nat /\ from \in ls .. L /\ to \in from .. L - 1
      /\ ls = 1 \/ file[ls - 1] \in Delimiters
      /\ \A k \in ls .. from - 1 : file[k] \in Delimiters
  BY DEF FirstWord, LineAt, Delimiters
<1>2. from = 1 \/ file[from - 1] \in Delimiters
  <2>1. CASE from = ls
    BY <1>1, <2>1
  <2>2. CASE from # ls
    <3>1. from - 1 \in ls .. from - 1
      BY <1>1, <2>2
    <3> QED
      BY <1>1, <3>1
  <2> QED
    BY <2>1, <2>2
<1> QED
  BY <1>1, <1>2 DEF IsWord, FirstWord

(* Where only blanks are in front of it in its line, a word has no address. *)
LEMMA AddressOfFirst ==
  ASSUME NEW ls, NEW L, LineAt(ls, L), Len(file) \in Nat, NEW w, w[1] \in ls .. L,
         \A k \in ls .. w[1] - 1 : file[k] = Blank
  PROVE  AddressOf(w) = NoIp
<1> DEFINE i == w[1]
<1>1. LineStart(i) = ls /\ ls \in Nat /\ i \in Nat
  <2>1. LineStart(i) = ls
    BY LineStartIs
  <2> QED
    BY <2>1 DEF LineAt
<1>2. Words(ls, i - 1) = {}
  <2> SUFFICES ASSUME NEW u \in Words(ls, i - 1) PROVE FALSE
    OBVIOUS
  <2>1. u[1] \in ls .. i - 1 /\ u[2] \in ls .. i - 1 /\ u[1] <= u[2] /\ IsWord(u[1], u[2])
    BY DEF Words
  <2>2. u[1] \in u[1] .. u[2] /\ file[u[1]] = Blank
    BY <1>1, <2>1
  <2> QED
    BY <2>1, <2>2 DEF IsWord, Delimiters
<1> QED
  BY <1>1, <1>2 DEF AddressOf

LEMMA AddressAfter ==
  ASSUME NEW ls, NEW L, NEW from, NEW to, FirstWord(ls, L, from, to), Len(file) \in Nat,
         NEW w, w[1] \in to + 1 .. L
  PROVE  AddressOf(w) = ParseIp(SubSeq(file, from, to))
<1> DEFINE i == w[1]
           first == <<from, to>>
           before == Words(ls, i - 1)
           Least(v) == \A u \in before : v[1] <= u[1]
<1>0. /\ LineAt(ls, L) /\ from \in ls .. L /\ to \in from .. L - 1
      /\ \A k \in ls .. from - 1 : file[k] = Blank
  BY DEF FirstWord
<1>1. ls \in Nat /\ L \in Nat /\ i \in Nat /\ i \in ls .. L /\ from <= i - 1 /\ to <= i - 1 /\ ls <= to
  BY <1>0 DEF LineAt
<1>2. LineStart(i) = ls
  BY <1>0, <1>1, LineStartIs
<1>3. IsWord(from, to) /\ from \in Nat /\ to \in Nat
  BY FirstIsWord
<1>4. first \in before
  <2>1. from \in ls .. i - 1 /\ to \in ls .. i - 1 /\ from <= to
    BY <1>0, <1>1, <1>3
  <2> QED
    BY <1>3, <2>1 DEF Words
<1>5. ASSUME NEW u \in before
      PROVE  u = <<u[1], u[2]>> /\ u[1] \in Nat /\ u[2] \in Nat /\ u[1] <= u[2] /\ from <= u[1] /\ IsWord(u[1], u[2])
  <2>1. u = <<u[1], u[2]>> /\ u[1] \in ls .. i - 1 /\ u[2] \in ls .. i - 1 /\ u[1] <= u[2] /\ IsWord(u[1], u[2])
    BY DEF Words
  <2>2. u[1] \in u[1] .. u[2]
    BY <1>1, <2>1
  <2>3. file[u[1]] # Blank
    BY <2>1, <2>2 DEF IsWord, Delimiters
  <2>4. ~(u[1] < from)
    BY <1>0, <1>1, <1>3, <2>1, <2>3
  <2> QED
    BY <1>1, <1>3, <2>1, <2>4
<1>6. Least(first)
  BY <1>5
<1>7. \A v \in before : Least(v) => v = first
  <2> SUFFICES ASSUME NEW v \in before, Least(v) PROVE v = first
    OBVIOUS
  <2>1. v[1] <= from
    BY <1>4
  <2>2. v[1] = from
    BY <1>3, <1>5, <2>1
  <2>3. v[2] = to
    <3>1. from <= to
      BY <1>0, <1>3
    <3> QED
      BY <1>3, <1>5, <2>2, <3>1, WordEnds
  <2> QED
    BY <1>5, <2>2, <2>3
<1>8. FirstOf(before) = first
  <2>1. FirstOf(before) = CHOOSE v \in before : Least(v)
    BY DEF FirstOf
  <2> HIDE DEF Least, first, before
  <2> QED
    BY <1>4, <1>6, <1>7, <2>1
<1> DEFINE c == FirstOf(before)
<1>9. AddressOf(w) = IF before = {} THEN NoIp ELSE ParseIp(SubSeq(file, c[1], c[2]))
  BY <1>2 DEF AddressOf
<1>10. before # {} /\ c[1] = from /\ c[2] = to
  <2> HIDE DEF before, c
  <2>1. c = first
    BY <1>8 DEF c
  <2> QED
    BY <1>4, <2>1
<1> HIDE DEF before, c
<1> QED
  BY <1>9, <1>10

(* A line fits the window that begins in it. *)
WindowEnd(here) == Min({here + BufSize, Len(file) + 1})

LEMMA WindowHasLine ==
  ASSUME Len(file) \in Nat, NEW ls, NEW L, LineAt(ls, L), NEW here \in ls .. L
  PROVE  /\ WindowEnd(here) \in here .. Len(file) + 1 /\ L \in here .. WindowEnd(here) - 1
         /\ L + 1 = WindowEnd(here) => WindowEnd(here) = Len(file) + 1
<1> DEFINE S == {here + BufSize, Len(file) + 1}
           e == Min(S)
<1>1. /\ ls \in Nat /\ L \in Nat /\ here \in Nat /\ L <= Len(file) /\ ls <= here /\ here <= L /\ L - ls + 1 < BufSize
      /\ BufSize \in Nat
  BY HostsFileAssumption DEF LineAt
<1>2. S \subseteq Nat /\ S # {}
  BY <1>1
<1>3. e \in S /\ \A n \in S : e <= n
  <2> HIDE DEF S
  <2> QED
    BY <1>2, MinNat
<1>4. (e = here + BufSize \/ e = Len(file) + 1) /\ e <= here + BufSize /\ e <= Len(file) + 1
  <2> HIDE DEF e
  <2> QED
    BY <1>3
<1> HIDE DEF e, S
<1>5. e \in here .. Len(file) + 1 /\ L \in here .. e - 1 /\ (L + 1 = e => e = Len(file) + 1)
  BY <1>1, <1>4
<1> QED
  BY <1>5 DEF WindowEnd, e, S

LEMMA TokenThere ==
  ASSUME Len(file) \in Nat, NEW ls, NEW L, LineAt(ls, L), NEW here \in ls .. L
  PROVE  LET from == SkipAll(here, WindowEnd(here), {Blank})
             it == FindNextWs(from, WindowEnd(here))
         IN Token(here, from, it, L) /\ it # WindowEnd(here)
<1> DEFINE e == WindowEnd(here)
           from == SkipAll(here, e, {Blank})
           it == FindNextWs(from, e)
<1>1. /\ here \in Nat /\ e \in Nat /\ L \in here .. e - 1 /\ file[L] = NewLine /\ Len(file) \in Nat
  <2>1. here \in Nat /\ file[L] = NewLine
    BY DEF LineAt
  <2>2. e \in here .. Len(file) + 1 /\ L \in here .. e - 1
    BY WindowHasLine
  <2> HIDE DEF e
  <2> QED
    BY <2>1, <2>2
<1> HIDE DEF e
<1>2. from \in here .. L /\ (\A k \in here .. from - 1 : file[k] \in {Blank}) /\ file[from] \notin {Blank}
  <2>1. file[L] \notin {Blank}
    BY <1>1 DEF NewLine, Blank
  <2> QED
    BY <1>1, <2>1, SkipAllStops
<1> HIDE DEF from
<1>3. from \in Nat /\ L \in from .. e - 1 /\ file[L] \in Delimiters
  BY <1>1, <1>2 DEF Delimiters
<1>4. it \in from .. L /\ (\A k \in from .. it - 1 : file[k] \notin Delimiters) /\ file[it] \in Delimiters
  BY <1>1, <1>3, FindStops
<1>5. it # e
  <2> HIDE DEF it
  <2> QED
    BY <1>1, <1>2, <1>4
<1> QED
  BY <1>2, <1>4, <1>5 DEF Token, e, from, it

LEMMA ParsedIp ==
  ASSUME file \in Seq(STRING), NEW i \in Nat, NEW it \in Nat, i >= 1, i <= it, it <= Len(file),
         ParseIp(SubSeq(file, i, it - 1)) # NoIp
  PROVE  i < it /\ ParseIp(SubSeq(file, i, it - 1)) \in Ips
<1> DEFINE token == SubSeq(file, i, it - 1)
<1>1. Len(token) = 1 /\ token[1] \in Ips /\ ParseIp(token) = token[1]
  BY DEF ParseIp
<1>2. Len(token) = it - i
  OBVIOUS
<1> HIDE DEF token
<1>3. i < it
  <2>1. Len(token) = 1
    BY <1>1
  <2>2. it - i = 1
    BY <1>2, <2>1
  <2> QED
    BY <2>2
<1>4. ParseIp(token) \in Ips
  BY <1>1, Zenon
<1> QED
  BY <1>3, <1>4 DEF token

LEMMA OrdinaryChar ==
  ASSUME Ordinary, file \in Seq(STRING), NEW k \in 1 .. Len(file)
  PROVE  file[k] # Nul /\ file[k] \in ToSet(file)
  BY DEF Ordinary, ToSet

(* Nothing at or behind a comment sign gives an address. *)
LEMMA NothingBehindHash ==
  ASSUME Len(file) \in Nat, NEW ls, NEW L, LineAt(ls, L), NEW h \in ls .. L, file[h] = Hash,
         NEW w \in Given, w[1] <= L, ls <= w[1], h <= w[2] + 1
  PROVE  FALSE
<1>1. w[1] \in Nat /\ w[2] \in Nat /\ Gives(w) /\ ls \in Nat /\ L \in Nat
  BY GivenType DEF LineAt
<1>2. LineStart(w[1]) = ls
  <2>1. w[1] \in ls .. L
    BY <1>1
  <2> QED
    BY <2>1, LineStartIs
<1>3. \A k \in ls .. w[2] + 1 : file[k] # Hash
  BY <1>1, <1>2 DEF Gives
<1>4. h \in ls .. w[2] + 1
  BY <1>1
<1> QED
  BY <1>3, <1>4

(* While names are read: the first word of the line is an address, a, and   *)
(* no comment sign has come.                                                *)
Naming(ls, L, from, to, here, a) ==
  /\ FirstWord(ls, L, from, to)
  /\ a = ParseIp(SubSeq(file, from, to)) /\ a # NoIp
  /\ here \in to + 1 .. L /\ file[here] = Blank
  /\ \A k \in ls .. here : file[k] # Hash

(* A turn at the beginning of a line. *)
LEMMA AtIpTurn ==
  ASSUME Ordinary, file \in Seq(STRING), NEW here, NEW L, LineAt(here, L), NEW f, FoundUpTo(here, f),
         NEW from, NEW it, Token(here, from, it, L), NEW a,
         a = IF file[it] \in {Hash, NewLine} THEN NoIp ELSE ParseIp(SubSeq(file, from, it - 1))
  PROVE  \/ a = NoIp /\ FoundUpTo(L + 1, f)
         \/ /\ a # NoIp /\ a \in Ips /\ FoundUpTo(it, f) /\ it < L
            /\ from \in Nat /\ it - 1 \in Nat /\ Naming(here, L, from, it - 1, it, a)
<1>1. /\ Len(file) \in Nat /\ here \in Nat /\ here >= 1 /\ L \in Nat /\ here <= L /\ L <= Len(file) /\ file[L] = NewLine
      /\ from \in here .. L /\ it \in from .. L /\ \A k \in here .. L - 1 : file[k] # NewLine
  BY DEF LineAt, Token
<1>2. /\ \A k \in here .. from - 1 : file[k] = Blank
      /\ file[from] # Blank /\ file[it] \in Delimiters
      /\ \A k \in from .. it - 1 : file[k] \notin Delimiters
  BY DEF Token
<1>3. ASSUME NEW w \in Given, here <= w[1], w[1] <= it PROVE FALSE
  <2>1. w[1] \in Nat /\ w[2] \in Nat /\ w[1] <= w[2] /\ IsWord(w[1], w[2]) /\ Gives(w)
    BY <1>1, GivenType
  <2>2. w[1] = from
    BY <1>1, <1>3, <2>1, TokenStarts
  <2>3. AddressOf(w) = NoIp
    BY <1>1, <1>2, <2>2, AddressOfFirst
  <2> QED
    BY <2>1, <2>3 DEF Gives
<1>4. it \in Nat /\ it \in 1 .. Len(file) /\ from \in Nat /\ from >= 1 /\ from <= it
  BY <1>1
<1>5. file[it] # Nul
  BY <1>4, OrdinaryChar
<1>6. ASSUME from < it PROVE FirstWord(here, L, from, it - 1)
  <2>1. it - 1 \in from .. L - 1 /\ (it - 1) + 1 = it
    BY <1>1, <1>4, <1>6
  <2> QED
    BY <1>1, <1>2, <2>1 DEF FirstWord
<1>7. CASE a # NoIp
  <2>1. file[it] \notin {Hash, NewLine} /\ a = ParseIp(SubSeq(file, from, it - 1))
    BY <1>7
  <2>2. file[it] = Blank
    BY <1>2, <1>5, <2>1 DEF Delimiters
  <2>3. from < it /\ a \in Ips
    BY <1>1, <1>4, <1>7, <2>1, ParsedIp
  <2>4. it # L
    BY <1>1, <2>2 DEF Blank, NewLine
  <2>5. FoundUpTo(it, f)
    <3>1. \A w \in Given : ~(here <= w[1] /\ w[1] < it)
      BY <1>1, <1>3, <1>4, GivenType
    <3>2. here <= it
      BY <1>1
    <3> QED
      BY <1>1, <1>4, <3>1, <3>2, NoneBetween
  <2>6. \A k \in here .. it : file[k] # Hash
    <3> SUFFICES ASSUME NEW k \in here .. it PROVE file[k] # Hash
      OBVIOUS
    <3>1. CASE k < from
      <4>1. k \in here .. from - 1
        BY <1>1, <3>1
      <4> QED
        BY <1>2, <4>1 DEF Blank, Hash
    <3>2. CASE k >= from /\ k < it
      <4>1. k \in from .. it - 1
        BY <1>1, <3>2
      <4> QED
        BY <1>2, <4>1 DEF Delimiters
    <3>3. CASE k = it
      BY <2>2, <3>3 DEF Blank, Hash
    <3> QED
      BY <1>1, <3>1, <3>2, <3>3
  <2>7. Naming(here, L, from, it - 1, it, a)
    <3>1. it \in (it - 1) + 1 .. L
      BY <1>1, <1>4
    <3> QED
      BY <1>6, <1>7, <2>1, <2>2, <2>3, <2>6, <3>1 DEF Naming
  <2> QED
    BY <1>1, <1>4, <1>7, <2>3, <2>4, <2>5, <2>7
<1>8. CASE a = NoIp
  <2>1. ASSUME NEW w \in Given, here <= w[1], w[1] < L + 1 PROVE FALSE
    <3>1. w[1] \in Nat /\ w[2] \in Nat /\ w[1] <= w[2] /\ IsWord(w[1], w[2]) /\ Gives(w)
      BY <1>1, GivenType
    <3>2. it < w[1] /\ w[1] <= L
      BY <1>1, <1>3, <1>4, <2>1, <3>1
    <3>3. file[it] # NewLine
      BY <1>1, <1>4, <3>1, <3>2
    <3>4. CASE file[it] = Hash
      <4>1. it \in here .. L /\ it <= w[2] + 1
        BY <1>1, <1>4, <3>1, <3>2
      <4> QED
        BY <1>1, <2>1, <3>2, <3>4, <4>1, NothingBehindHash
    <3>5. CASE file[it] # Hash
      <4>1. file[it] = Blank /\ a = ParseIp(SubSeq(file, from, it - 1))
        BY <1>2, <1>5, <3>3, <3>5 DEF Delimiters
      <4>2. from < it
        BY <1>1, <1>2, <1>4, <4>1
      <4>3. w[1] \in (it - 1) + 1 .. L
        BY <1>1, <1>4, <3>1, <3>2
      <4>4. AddressOf(w) = a
        BY <1>1, <1>6, <4>1, <4>2, <4>3, AddressAfter
      <4> QED
        BY <1>8, <3>1, <4>4 DEF Gives
    <3> QED
      BY <3>4, <3>5
  <2>2. FoundUpTo(L + 1, f)
    <3>1. \A w \in Given : ~(here <= w[1] /\ w[1] < L + 1)
      BY <2>1
    <3>2. here <= L + 1 /\ L + 1 \in Nat
      BY <1>1
    <3> QED
      BY <1>1, <3>1, <3>2, NoneBetween
  <2> QED
    BY <1>8, <2>2
<1> QED
  BY <1>7, <1>8

(* What a lower-case name is made of. *)
LowerSet == STRING \cup {"a"}

LEMMA LowerCharsType ==
  ASSUME NEW s \in Seq(STRING)
  PROVE  LowerChars(s) \in Seq(LowerSet) /\ DOMAIN LowerChars(s) = DOMAIN s
<1>1. \A c \in STRING : ToLower(c) \in LowerSet
  BY DEF ToLower, LowerSet
<1>2. \A i \in 1 .. Len(s) : ToLower(s[i]) \in LowerSet
  <2> SUFFICES ASSUME NEW i \in 1 .. Len(s) PROVE ToLower(s[i]) \in LowerSet
    OBVIOUS
  <2>1. s[i] \in STRING
    OBVIOUS
  <2> QED
    BY <1>1, <2>1
<1>3. LowerChars(s) = [i \in 1 .. Len(s) |-> ToLower(s[i])] /\ Len(s) \in Nat
  BY DEF LowerChars
<1> QED
  BY <1>2, <1>3

(* After such a turn: found is f where a comment begins, and g otherwise.   *)
NameTaken(ls, L, first, last, it, a, f, g) ==
  /\ file[it] = Hash => FoundUpTo(L + 1, f)
  /\ file[it] # Hash => /\ g \in Seq(Ips)
                        /\ \/ file[it] = NewLine /\ it = L /\ FoundUpTo(L + 1, g)
                           \/ file[it] = Blank /\ FoundUpTo(it, g) /\ Naming(ls, L, first, last, it, a)

(* A turn behind a word of a line whose first word is an address. *)
LEMMA AtNameTurn ==
  ASSUME Ordinary, file \in Seq(STRING), sought \in Seq(LowerSet), Len(sought) >= 1,
         NEW ls, NEW L, NEW first, NEW last, NEW here, NEW a \in Ips, Naming(ls, L, first, last, here, a),
         NEW f \in Seq(Ips), FoundUpTo(here, f), NEW from, NEW it, Token(here, from, it, L), NEW g,
         g = IF LowerChars(SubSeq(file, from, it - 1)) = sought THEN Append(f, a) ELSE f
  PROVE  NameTaken(ls, L, first, last, it, a, f, g)
<1> DEFINE W == <<from, it - 1>>
<1>1. /\ Len(file) \in Nat /\ ls \in Nat /\ ls >= 1 /\ L \in Nat /\ L <= Len(file) /\ file[L] = NewLine
      /\ \A k \in ls .. L - 1 : file[k] # NewLine
      /\ LineAt(ls, L) /\ FirstWord(ls, L, first, last)
  BY DEF LineAt, FirstWord, Naming
<1>2. /\ last \in Nat /\ ls <= last /\ here \in last + 1 .. L /\ here \in Nat /\ here >= 1 /\ file[here] = Blank
      /\ a = ParseIp(SubSeq(file, first, last)) /\ a # NoIp
      /\ \A k \in ls .. here : file[k] # Hash
  <2>1. /\ here \in last + 1 .. L /\ file[here] = Blank /\ a = ParseIp(SubSeq(file, first, last)) /\ a # NoIp
        /\ \A k \in ls .. here : file[k] # Hash
    BY DEF Naming
  <2>2. first \in ls .. L /\ last \in first .. L - 1
    BY <1>1 DEF FirstWord
  <2> QED
    BY <1>1, <2>1, <2>2
<1>3. /\ from \in here .. L /\ it \in from .. L
      /\ \A k \in here .. from - 1 : file[k] = Blank
      /\ file[from] # Blank /\ file[it] \in Delimiters
      /\ \A k \in from .. it - 1 : file[k] \notin Delimiters
  BY DEF Token
<1>4. from \in Nat /\ it \in Nat /\ here < from /\ from <= it /\ it <= L
  BY <1>1, <1>2, <1>3
<1>5. ASSUME NEW w \in Given, here <= w[1], w[1] <= it
      PROVE  w = W /\ from < it /\ w[2] = it - 1
  <2>1. w[1] \in Nat /\ w[2] \in Nat /\ w[1] <= w[2] /\ IsWord(w[1], w[2]) /\ w = <<w[1], w[2]>>
    BY <1>1, GivenType
  <2>2. w[1] = from /\ w[2] = it - 1 /\ from < it
    BY <1>1, <1>2, <1>4, <1>5, <2>1, TokenStarts
  <2> QED
    BY <2>1, <2>2
<1>6. file[it] # Nul
  <2>1. it \in 1 .. Len(file)
    BY <1>1, <1>2, <1>4
  <2> QED
    BY <2>1, OrdinaryChar
<1>7. ASSUME file[it] = Hash PROVE FoundUpTo(L + 1, f)
  <2>1. ASSUME NEW w \in Given, here <= w[1], w[1] < L + 1 PROVE FALSE
    <3>1. w[1] \in Nat /\ w[2] \in Nat /\ w[1] <= w[2]
      BY <1>1, GivenType
    <3>2. it <= w[2] + 1
      <4>1. CASE w[1] <= it
        BY <1>4, <1>5, <2>1, <4>1
      <4>2. CASE ~(w[1] <= it)
        BY <1>4, <3>1, <4>2
      <4> QED
        BY <4>1, <4>2
    <3>3. it \in ls .. L /\ ls <= w[1] /\ w[1] <= L
      BY <1>1, <1>2, <1>4, <2>1, <3>1, SMTT(30)
    <3> QED
      BY <1>1, <1>7, <3>2, <3>3, NothingBehindHash
  <2>2. here <= L + 1 /\ L + 1 \in Nat
    BY <1>1, <1>2
  <2> QED
    BY <1>1, <1>2, <2>1, <2>2, NoneBetween
<1>8. ASSUME file[it] # Hash
      PROVE  g \in Seq(Ips) /\ FoundUpTo(it, g)
  <2>1. CASE LowerChars(SubSeq(file, from, it - 1)) = sought
    <3>1. from < it
      <4> SUFFICES ASSUME from = it PROVE FALSE
        BY <1>4
      <4> DEFINE s == SubSeq(file, from, it - 1)
      <4>1. from - 1 < from /\ from \in Nat /\ from >= 1
        BY <1>2, <1>4
      <4>2. s \in Seq(STRING) /\ Len(s) = 0
        BY <1>1, <1>4, <4>1
      <4>3. DOMAIN LowerChars(s) = DOMAIN s /\ LowerChars(s) = sought
        <5> HIDE DEF s
        <5>1. DOMAIN LowerChars(s) = DOMAIN s
          BY <4>2, LowerCharsType
        <5> QED
          BY <2>1, <5>1 DEF s
      <4> HIDE DEF s
      <4>4. DOMAIN sought = DOMAIN s
        BY <4>3
      <4>5. 1 \in DOMAIN sought /\ 1 \notin DOMAIN s
        BY <4>2
      <4> QED
        BY <4>4, <4>5
    <3>2. IsWord(from, it - 1)
      <4>1. from - 1 \in here .. from - 1 /\ (it - 1) + 1 = it
        BY <1>1, <1>2, <1>4
      <4>2. file[from - 1] \in Delimiters
        BY <1>3, <4>1 DEF Delimiters
      <4> QED
        BY <1>3, <4>1, <4>2 DEF IsWord
    <3>3. W[1] = from /\ W[2] = it - 1 /\ from \in ls .. L /\ from \in last + 1 .. L
      BY <1>1, <1>2, <1>4
    <3>4. AddressOf(W) = a
      <4> HIDE DEF W
      <4> QED
        BY <1>1, <1>2, <3>3, AddressAfter, SMTT(30)
    <3>5. LineStart(from) = ls
      BY <1>1, <3>3, LineStartIs
    <3>6. \A k \in ls .. (it - 1) + 1 : file[k] # Hash
      <4> SUFFICES ASSUME NEW k \in ls .. (it - 1) + 1 PROVE file[k] # Hash
        OBVIOUS
      <4>1. CASE k <= here
        <5>1. k \in ls .. here
          BY <1>1, <1>2, <4>1
        <5> QED
          BY <1>2, <5>1
      <4>2. CASE here < k /\ k < from
        <5>1. k \in here .. from - 1
          BY <1>1, <1>2, <1>4, <4>2
        <5> QED
          BY <1>3, <5>1 DEF Blank, Hash
      <4>3. CASE from <= k /\ k < it
        <5>1. k \in from .. it - 1
          BY <1>4, <4>3
        <5> QED
          BY <1>3, <5>1 DEF Delimiters
      <4>4. CASE k = it
        BY <1>8, <4>4
      <4> QED
        BY <1>1, <1>2, <1>4, <4>1, <4>2, <4>3, <4>4
    <3>7. Gives(W)
      <4> HIDE DEF W
      <4> QED
        BY <1>2, <2>1, <3>3, <3>4, <3>5, <3>6 DEF Gives
    <3>8. W \in Given
      <4>1. from \in 1 .. Len(file) /\ it - 1 \in 1 .. Len(file) /\ from <= it - 1
        BY <1>1, <1>2, <1>4, <3>1
      <4>2. W \in Words(1, Len(file))
        BY <3>2, <4>1 DEF Words
      <4> QED
        BY <3>7, <4>2 DEF Given
    <3>9. g = Append(f, a)
      BY <2>1
    <3>10. FoundUpTo(it, g)
      <4>1. here <= W[1] /\ W[1] < it
        BY <1>2, <1>4, <3>1, <3>3
      <4>2. \A w \in Given : here <= w[1] /\ w[1] < it => w = W
        <5> SUFFICES ASSUME NEW w \in Given, here <= w[1], w[1] < it PROVE w = W
          OBVIOUS
        <5>1. w[1] \in Nat
          BY <1>1, GivenType
        <5> QED
          BY <1>4, <1>5, <5>1
      <4>3. here <= it
        BY <1>4, <1>2
      <4> HIDE DEF W
      <4> QED
        BY <1>1, <1>2, <1>4, <3>4, <3>8, <3>9, <4>1, <4>2, <4>3, OneBetween
    <3> QED
      BY <3>9, <3>10
  <2>2. CASE LowerChars(SubSeq(file, from, it - 1)) # sought
    <3>1. ASSUME NEW w \in Given, here <= w[1], w[1] < it PROVE FALSE
      <4>1. w[1] \in Nat /\ Gives(w)
        BY <1>1, GivenType
      <4>2. w[1] = from /\ w[2] = it - 1
        BY <1>4, <1>5, <3>1, <4>1
      <4> QED
        BY <2>2, <4>1, <4>2 DEF Gives
    <3>2. here <= it
      BY <1>4, <1>2
    <3>3. FoundUpTo(it, f)
      BY <1>1, <1>2, <1>4, <3>1, <3>2, NoneBetween
    <3> QED
      BY <2>2, <3>3
  <2> QED
    BY <2>1, <2>2
<1>9. ASSUME file[it] = NewLine PROVE it = L /\ FoundUpTo(L + 1, g)
  <2>1. it = L
    <3> SUFFICES ASSUME it < L PROVE FALSE
      BY <1>1, <1>4
    <3>1. it \in ls .. L - 1
      BY <1>1, <1>2, <1>4
    <3> QED
      BY <1>1, <1>9, <3>1
  <2>2. ASSUME NEW w \in Given, it <= w[1], w[1] < L + 1 PROVE FALSE
    <3>1. w[1] \in Nat
      BY <1>1, GivenType
    <3>2. w[1] = it
      BY <1>4, <2>1, <2>2, <3>1
    <3>3. w = W /\ from < it
      BY <1>2, <1>4, <1>5, <3>2
    <3> QED
      BY <1>4, <3>2, <3>3
  <2>3. FoundUpTo(it, g)
    BY <1>8, <1>9 DEF Hash, NewLine
  <2>4. it <= L + 1 /\ L + 1 \in Nat
    BY <1>1, <1>4
  <2> QED
    BY <1>1, <1>4, <2>1, <2>2, <2>3, <2>4, NoneBetween
<1>10. ASSUME file[it] = Blank PROVE Naming(ls, L, first, last, it, a)
  <2>1. it \in last + 1 .. L
    BY <1>1, <1>2, <1>4
  <2>2. \A k \in ls .. it : file[k] # Hash
    <3> SUFFICES ASSUME NEW k \in ls .. it PROVE file[k] # Hash
      OBVIOUS
    <3>1. CASE k <= here
      <4>1. k \in ls .. here
        BY <1>1, <1>2, <3>1
      <4> QED
        BY <1>2, <4>1
    <3>2. CASE here < k /\ k < from
      <4>1. k \in here .. from - 1
        BY <1>1, <1>2, <1>4, <3>2
      <4> QED
        BY <1>3, <4>1 DEF Blank, Hash
    <3>3. CASE from <= k /\ k < it
      <4>1. k \in from .. it - 1
        BY <1>4, <3>3
      <4> QED
        BY <1>3, <4>1 DEF Delimiters
    <3>4. CASE k = it
      BY <1>10, <3>4 DEF Blank, Hash
    <3> QED
      BY <1>1, <1>2, <1>4, <3>1, <3>2, <3>3, <3>4
  <2> QED
    BY <1>1, <1>2, <1>10, <2>1, <2>2 DEF Naming
<1> QED
  <2>1. file[it] \in {Blank, Hash, NewLine}
    BY <1>3, <1>6 DEF Delimiters
  <2>2. CASE file[it] = Hash
    BY <1>7, <2>2 DEF NameTaken
  <2>3. CASE file[it] # Hash
    BY <1>8, <1>9, <1>10, <2>1, <2>3 DEF NameTaken
  <2> QED
    BY <2>2, <2>3

LEMMA SkipsToLineFeed ==
  ASSUME file \in Seq(STRING), NEW ls, NEW L, LineAt(ls, L), NEW here \in ls .. L,
         NEW it, it = SkipAll(here, WindowEnd(here), ToSet(file) \ {NewLine}), NEW n, n = Min({BufSize, it - here + 1})
  PROVE  it # WindowEnd(here) /\ n \in Nat /\ n <= WindowEnd(here) - here /\ here + n = L + 1
<1> DEFINE e == WindowEnd(here)
           S == {BufSize, L - here + 1}
<1>1. /\ ls \in Nat /\ ls >= 1 /\ L \in Nat /\ here \in Nat /\ L <= Len(file) /\ ls <= here /\ here <= L /\ L - ls + 1 < BufSize
      /\ Len(file) \in Nat /\ file[L] = NewLine /\ (\A k \in ls .. L - 1 : file[k] # NewLine) /\ BufSize \in Nat
  BY HostsFileAssumption DEF LineAt
<1>2. e \in Nat /\ L \in here .. e - 1
  <2>1. e \in here .. Len(file) + 1 /\ L \in here .. e - 1
    BY WindowHasLine
  <2> HIDE DEF e
  <2> QED
    BY <1>1, <2>1
<1> HIDE DEF e
<1>3. it \in here .. L /\ file[it] \notin ToSet(file) \ {NewLine}
  <2> DEFINE cs == ToSet(file) \ {NewLine}
  <2>1. file[L] \notin cs /\ it = SkipAll(here, e, cs)
    BY <1>1 DEF e
  <2> HIDE DEF cs
  <2>2. it \in here .. L /\ file[it] \notin cs
    BY <1>1, <1>2, <2>1, SkipAllStops, SMTT(30)
  <2> QED
    BY <2>2 DEF cs
<1>4. it = L
  <2> SUFFICES ASSUME it < L PROVE FALSE
    BY <1>1, <1>3
  <2>1. it \in ls .. L - 1 /\ it \in 1 .. Len(file)
    BY <1>1, <1>3
  <2>2. file[it] \in ToSet(file)
    <3>1. it \in DOMAIN file
      BY <2>1
    <3> QED
      BY <3>1 DEF ToSet
  <2> QED
    BY <1>1, <1>3, <2>1, <2>2
<1>5. Min(S) = L - here + 1
  <2>1. S \subseteq Nat /\ S # {}
    BY <1>1
  <2>2. Min(S) \in S /\ \A k \in S : Min(S) <= k
    <3> HIDE DEF S
    <3> QED
      BY <2>1, MinNat
  <2> DEFINE m == Min(S)
  <2>3. (m = BufSize \/ m = L - here + 1) /\ m <= BufSize /\ m <= L - here + 1
    <3> HIDE DEF m
    <3> QED
      BY <2>2 DEF m
  <2> HIDE DEF m, S
  <2>4. m = L - here + 1
    BY <1>1, <2>3
  <2> QED
    BY <2>4 DEF m
<1>6. n = L - here + 1
  BY <1>4, <1>5
<1> HIDE DEF S
<1>7. L # e /\ n \in Nat /\ n <= e - here /\ here + n = L + 1
  BY <1>1, <1>2, <1>6
<1> QED
  BY <1>4, <1>7 DEF e

(* Where a lookup is in an ordinary file: everything found so far is what   *)
(* the words so far give, and the window ends before the file does unless   *)
(* something is left in it.                                                 *)
ScanOK(here, e, s, a, f) ==
  /\ here \in 1 .. Len(file) + 1 /\ e \in here .. Len(file) + 1
  /\ here = e => e = Len(file) + 1
  /\ f \in Seq(Ips) /\ Len(f) <= room
  /\ \/ s = "AT_IP" /\ BeginsLine(here) /\ FoundUpTo(here, f)
     \/ /\ s = "AT_NAME" /\ a \in Ips /\ FoundUpTo(here, f)
        /\ \E ls, L, first, last : Naming(ls, L, first, last, here, a)
     \/ /\ s = "SKIPPING_LINE"
        /\ \E ls, L : LineAt(ls, L) /\ here \in ls .. L /\ FoundUpTo(L + 1, f)

LEMMA ScanAtIp ==
  ASSUME Ordinary, file \in Seq(STRING), NEW here, NEW e, NEW b, NEW f, ScanOK(here, e, "AT_IP", b, f), here # e,
         NEW from, from = SkipAll(here, WindowEnd(here), {Blank}), NEW it, it = FindNextWs(from, WindowEnd(here)),
         NEW a, a = IF EndsAt(it, WindowEnd(here), {Hash, NewLine}) THEN NoIp ELSE ParseIp(SubSeq(file, from, it - 1))
  PROVE  ScanOK(it, WindowEnd(here), IF a # NoIp THEN "AT_NAME" ELSE "SKIPPING_LINE", a, f)
<1>1. /\ Len(file) \in Nat /\ here \in 1 .. Len(file) /\ BeginsLine(here) /\ FoundUpTo(here, f)
      /\ f \in Seq(Ips) /\ Len(f) <= room
  BY DEF ScanOK
<1>2. PICK L \in here .. Len(file) : LineAt(here, L)
  BY <1>1, LineBegins
<1>3. here \in here .. L /\ L \in Nat /\ here \in Nat /\ here >= 1
  BY <1>1, <1>2
<1>4. Token(here, from, it, L) /\ it # WindowEnd(here)
  BY <1>1, <1>2, <1>3, TokenThere
<1>5. a = IF file[it] \in {Hash, NewLine} THEN NoIp ELSE ParseIp(SubSeq(file, from, it - 1))
  BY <1>4 DEF EndsAt
<1>6. it \in here .. L /\ it \in 1 .. Len(file) + 1
  BY <1>1, <1>2, <1>3, <1>4 DEF Token
<1>7. WindowEnd(here) \in it .. Len(file) + 1
  <2> DEFINE w == WindowEnd(here)
  <2>1. w \in here .. Len(file) + 1 /\ L \in here .. w - 1
    BY <1>1, <1>2, <1>3, WindowHasLine
  <2> HIDE DEF w
  <2>2. w \in it .. Len(file) + 1
    BY <1>1, <1>2, <1>3, <1>6, <2>1
  <2> QED
    BY <2>2 DEF w
<1>8. \/ a = NoIp /\ FoundUpTo(L + 1, f)
      \/ a # NoIp /\ a \in Ips /\ FoundUpTo(it, f) /\ Naming(here, L, from, it - 1, it, a)
  BY <1>1, <1>2, <1>4, <1>5, AtIpTurn
<1>9. CASE a = NoIp
  BY <1>1, <1>2, <1>4, <1>6, <1>7, <1>8, <1>9 DEF ScanOK
<1>10. CASE a # NoIp
  <2>1. \E l1, l2, first, last : Naming(l1, l2, first, last, it, a)
    BY <1>8, <1>10
  <2> QED
    BY <1>1, <1>4, <1>6, <1>7, <1>8, <1>10, <2>1 DEF ScanOK
<1> QED
  BY <1>9, <1>10

LEMMA ScanAtName ==
  ASSUME Ordinary, file \in Seq(STRING), sought \in Seq(LowerSet), Len(sought) >= 1, room \in Nat,
         NEW here, NEW e, NEW a, NEW f, ScanOK(here, e, "AT_NAME", a, f), Len(f) < room,
         NEW from, from = SkipAll(here, WindowEnd(here), {Blank}), NEW it, it = FindNextWs(from, WindowEnd(here)),
         NEW g, g = IF LowerChars(SubSeq(file, from, it - 1)) = sought THEN Append(f, a) ELSE f
  PROVE  /\ EndsAt(it, WindowEnd(here), {Hash}) => ScanOK(it, WindowEnd(here), "SKIPPING_LINE", a, f)
         /\ ~EndsAt(it, WindowEnd(here), {Hash}) => ScanOK(it, WindowEnd(here), AfterName(file[it]), a, g)
<1>1. /\ Len(file) \in Nat /\ FoundUpTo(here, f) /\ f \in Seq(Ips) /\ a \in Ips
      /\ \E ls, L, first, last : Naming(ls, L, first, last, here, a)
  BY DEF ScanOK
<1>2. PICK ls, L, first, last : Naming(ls, L, first, last, here, a)
  BY <1>1
<1>3. /\ LineAt(ls, L) /\ here \in ls .. L /\ ls \in Nat /\ ls >= 1 /\ L \in Nat /\ L <= Len(file)
      /\ here \in Nat /\ here >= 1
  <2>1. LineAt(ls, L) /\ first \in ls .. L /\ last \in first .. L - 1 /\ here \in last + 1 .. L
    BY <1>2 DEF Naming, FirstWord
  <2>2. ls \in Nat /\ ls >= 1 /\ L \in Nat /\ L <= Len(file)
    BY <1>1, <2>1 DEF LineAt
  <2> QED
    BY <2>1, <2>2
<1>4. Token(here, from, it, L) /\ it # WindowEnd(here)
  BY <1>1, <1>3, TokenThere
<1>5. it \in ls .. L /\ it \in 1 .. Len(file) + 1
  BY <1>1, <1>3, <1>4 DEF Token
<1>6. WindowEnd(here) \in it .. Len(file) + 1
  <2> DEFINE w == WindowEnd(here)
  <2>1. w \in here .. Len(file) + 1 /\ L \in here .. w - 1
    BY <1>1, <1>3, WindowHasLine
  <2> HIDE DEF w
  <2>2. w \in it .. Len(file) + 1
    BY <1>1, <1>3, <1>5, <2>1
  <2> QED
    BY <2>2 DEF w
<1>7. /\ file[it] = Hash => FoundUpTo(L + 1, f)
      /\ file[it] # Hash => /\ g \in Seq(Ips)
                            /\ \/ file[it] = NewLine /\ it = L /\ FoundUpTo(L + 1, g)
                               \/ file[it] = Blank /\ FoundUpTo(it, g) /\ Naming(ls, L, first, last, it, a)
  <2>1. NameTaken(ls, L, first, last, it, a, f, g)
    <3>1. Token(here, from, it, L) /\ FoundUpTo(here, f) /\ f \in Seq(Ips) /\ a \in Ips
      BY <1>1, <1>4
    <3> QED
      BY <1>2, <3>1, AtNameTurn
  <2> QED
    BY <2>1 DEF NameTaken
<1>8. Len(f) <= room /\ (g \in Seq(Ips) => Len(g) <= room)
  BY <1>1
<1>9. EndsAt(it, WindowEnd(here), {Hash}) <=> file[it] = Hash
  BY <1>4 DEF EndsAt
<1>10. CASE file[it] = Hash
  BY <1>1, <1>3, <1>4, <1>5, <1>6, <1>7, <1>8, <1>9, <1>10 DEF ScanOK
<1>11. CASE file[it] # Hash /\ file[it] = NewLine
  <2>1. AfterName(file[it]) = "SKIPPING_LINE"
    BY <1>11 DEF AfterName
  <2>2. ~(file[it] = Blank)
    BY <1>11 DEF Blank, NewLine
  <2> QED
    BY <1>1, <1>3, <1>4, <1>5, <1>6, <1>7, <1>8, <1>9, <1>11, <2>1, <2>2 DEF ScanOK
<1>12. CASE file[it] # Hash /\ file[it] # NewLine
  <2>1. AfterName(file[it]) = "AT_NAME"
    BY <1>12 DEF AfterName
  <2>2. \E l1, l2, v1, v2 : Naming(l1, l2, v1, v2, it, a)
    BY <1>7, <1>12
  <2> QED
    BY <1>1, <1>4, <1>5, <1>6, <1>7, <1>8, <1>9, <1>12, <2>1, <2>2 DEF ScanOK
<1> QED
  BY <1>10, <1>11, <1>12

LEMMA ScanSkipLine ==
  ASSUME file \in Seq(STRING), NEW here, NEW e, NEW a, NEW f, ScanOK(here, e, "SKIPPING_LINE", a, f),
         NEW it, it = SkipAll(here, WindowEnd(here), ToSet(file) \ {NewLine}), NEW n, n = Min({BufSize, it - here + 1})
  PROVE  it # WindowEnd(here) /\ n <= WindowEnd(here) - here /\ ScanOK(here + n, WindowEnd(here), "AT_IP", a, f)
<1>1. /\ Len(file) \in Nat /\ f \in Seq(Ips) /\ Len(f) <= room
      /\ \E ls, L : LineAt(ls, L) /\ here \in ls .. L /\ FoundUpTo(L + 1, f)
  BY DEF ScanOK
<1>2. PICK ls, L : LineAt(ls, L) /\ here \in ls .. L /\ FoundUpTo(L + 1, f)
  BY <1>1
<1>3. it # WindowEnd(here) /\ n <= WindowEnd(here) - here /\ here + n = L + 1
  <2>1. here \in ls .. L /\ LineAt(ls, L)
    BY <1>2
  <2> QED
    BY <2>1, SkipsToLineFeed, ZenonT(60)
<1>4. ls \in Nat /\ ls >= 1 /\ L \in Nat /\ L <= Len(file) /\ L >= 1 /\ file[L] = NewLine /\ here \in Nat
  BY <1>1, <1>2 DEF LineAt
<1>5. /\ WindowEnd(here) \in L + 1 .. Len(file) + 1
      /\ L + 1 = WindowEnd(here) => WindowEnd(here) = Len(file) + 1
  <2> DEFINE w == WindowEnd(here)
  <2>1. w \in here .. Len(file) + 1 /\ L \in here .. w - 1 /\ (L + 1 = w => w = Len(file) + 1)
    BY <1>1, <1>2, WindowHasLine
  <2> HIDE DEF w
  <2>2. w \in L + 1 .. Len(file) + 1 /\ (L + 1 = w => w = Len(file) + 1)
    BY <1>1, <1>4, <2>1
  <2> QED
    BY <2>2 DEF w
<1>6. BeginsLine(L + 1) /\ L + 1 \in 1 .. Len(file) + 1
  BY <1>1, <1>4 DEF BeginsLine
<1>7. ScanOK(L + 1, WindowEnd(here), "AT_IP", a, f)
  BY <1>1, <1>2, <1>5, <1>6 DEF ScanOK
<1> QED
  BY <1>3, <1>7

(* What a lookup that returns has found. *)
ExactlyFound(f) ==
  /\ Len(f) = Min({room, Cardinality(Given)})
  /\ \A w \in Given : GivenRank(w) <= room => f[GivenRank(w)] = AddressOf(w)

LEMMA ScanReturns ==
  ASSUME Len(file) \in Nat, room \in Nat, NEW here, NEW e, NEW s, NEW a, NEW f, ScanOK(here, e, s, a, f),
         ~(Len(f) < room /\ here # e)
  PROVE  ExactlyFound(f)
<1> DEFINE S == {room, Cardinality(Given)}
<1>1. IsFiniteSet(Given) /\ Cardinality(Given) \in Nat /\ \A w \in Given : w[1] \in 1 .. Len(file)
  <2>1. IsFiniteSet(Given) /\ \A w \in Given : w[1] \in 1 .. Len(file)
    BY GivenType
  <2> QED
    BY <2>1, FS_CardinalityType
<1>2. f \in Seq(Ips) /\ Len(f) \in Nat /\ Len(f) <= room
  BY DEF ScanOK
<1>3. Min(S) \in S /\ \A k \in S : Min(S) <= k
  <2>1. S \subseteq Nat /\ S # {}
    BY <1>1
  <2> HIDE DEF S
  <2> QED
    BY <2>1, MinNat
<1>4. CASE Len(f) < room
  <2>1. here = e /\ here = Len(file) + 1
    BY <1>4 DEF ScanOK
  <2>2. FoundUpTo(here, f)
    <3>1. ~\E ls, L : LineAt(ls, L) /\ here \in ls .. L
      BY <2>1 DEF LineAt
    <3>2. ~\E ls, L, first, last : Naming(ls, L, first, last, here, a)
      <4> SUFFICES ASSUME NEW ls, NEW L, NEW first, NEW last, Naming(ls, L, first, last, here, a) PROVE FALSE
        OBVIOUS
      <4>1. LineAt(ls, L) /\ first \in ls .. L /\ last \in first .. L - 1 /\ here \in last + 1 .. L
        BY DEF Naming, FirstWord
      <4>2. ls \in Nat /\ L \in Nat
        BY <4>1 DEF LineAt
      <4> QED
        BY <3>1, <4>1, <4>2
    <3> QED
      BY <3>1, <3>2 DEF ScanOK
  <2>3. GivenBefore(here) = Given
    BY <1>1, <2>1 DEF GivenBefore
  <2>4. Len(f) = Cardinality(Given) /\ \A w \in Given : f[GivenRank(w)] = AddressOf(w)
    BY <2>2, <2>3 DEF FoundUpTo
  <2>5. Min(S) = Cardinality(Given)
    <3> DEFINE m == Min(S)
    <3>1. (m = room \/ m = Cardinality(Given)) /\ m <= room /\ m <= Cardinality(Given)
      <4> HIDE DEF m
      <4> QED
        BY <1>3 DEF m
    <3> HIDE DEF m, S
    <3>2. m = Cardinality(Given)
      BY <1>1, <1>2, <1>4, <2>4, <3>1
    <3> QED
      BY <3>2 DEF m
  <2> QED
    BY <2>4, <2>5 DEF ExactlyFound
<1>5. CASE Len(f) = room
  <2>1. PICK q : q \in Nat /\ FoundUpTo(q, f)
    <3>1. \A ls, L : LineAt(ls, L) => L + 1 \in Nat
      BY DEF LineAt
    <3>2. here \in Nat
      BY DEF ScanOK
    <3>3. FoundUpTo(here, f) \/ \E ls, L : LineAt(ls, L) /\ FoundUpTo(L + 1, f)
      BY DEF ScanOK
    <3> QED
      BY <3>1, <3>2, <3>3
  <2> DEFINE B == GivenBefore(q)
  <2>2. Cardinality(B) = room /\ \A w \in B : f[GivenRank(w)] = AddressOf(w)
    BY <1>5, <2>1 DEF FoundUpTo
  <2>3. B \subseteq Given /\ IsFiniteSet(B) /\ Cardinality(B) <= Cardinality(Given)
    <3>1. B \subseteq Given
      BY DEF GivenBefore
    <3> HIDE DEF B
    <3> QED
      BY <1>1, <3>1, FS_Subset
  <2>4. ASSUME NEW w \in Given, w \notin B PROVE ~(GivenRank(w) <= room)
    <3> DEFINE V == {v \in Given : v[1] <= w[1]}
    <3>1. B \cup {w} \subseteq V
      BY <1>1, <2>1, <2>4 DEF GivenBefore
    <3>2. IsFiniteSet(V)
      <4>1. V \subseteq Given
        OBVIOUS
      <4> HIDE DEF V
      <4> QED
        BY <1>1, <4>1, FS_Subset
    <3>3. GivenRank(w) = Cardinality(V)
      BY DEF GivenRank
    <3> HIDE DEF B, V
    <3>4. Cardinality(B \cup {w}) = Cardinality(B) + 1
      BY <2>3, <2>4, FS_AddElement
    <3>5. Cardinality(B \cup {w}) <= Cardinality(V) /\ Cardinality(V) \in Nat
      BY <3>1, <3>2, FS_Subset, FS_CardinalityType
    <3> QED
      BY <2>2, <3>3, <3>4, <3>5
  <2>5. Min(S) = room
    <3> DEFINE m == Min(S)
    <3>1. (m = room \/ m = Cardinality(Given)) /\ m <= room /\ m <= Cardinality(Given)
      <4> HIDE DEF m
      <4> QED
        BY <1>3 DEF m
    <3> HIDE DEF m, S, B
    <3>2. m = room
      BY <1>1, <2>2, <2>3, <3>1
    <3> QED
      BY <3>2 DEF m
  <2> HIDE DEF B, S
  <2>6. \A w \in Given : GivenRank(w) <= room => f[GivenRank(w)] = AddressOf(w)
    BY <2>2, <2>4
  <2> QED
    BY <1>5, <2>5, <2>6 DEF ExactlyFound, S
<1> QED
  BY <1>2, <1>4, <1>5

(* What is said of a file stays true while it is the same file. *)
LEMMA SameWords ==
  ASSUME file' = file, sought' = sought
  PROVE  Given' = Given /\ (\A w : AddressOf(w)' = AddressOf(w)) /\ Ordinary' = Ordinary
<1>1. \A i, j : IsWord(i, j)' = IsWord(i, j)
  BY DEF IsWord
<1>2. \A i, j : Words(i, j)' = Words(i, j)
  BY <1>1 DEF Words
<1>3. \A i : LineStart(i)' = LineStart(i)
  BY DEF LineStart
<1>4. \A w : AddressOf(w)' = AddressOf(w)
  <2> SUFFICES ASSUME NEW w PROVE AddressOf(w)' = AddressOf(w)
    OBVIOUS
  <2> QED
    BY <1>2, <1>3 DEF AddressOf
<1>5. \A w : Gives(w)' = Gives(w)
  BY <1>3, <1>4 DEF Gives
<1>6. Given' = Given
  BY <1>2, <1>5 DEF Given
<1>7. Ordinary' = Ordinary
  BY <1>3 DEF Ordinary, LineEnd
<1> QED
  BY <1>4, <1>6, <1>7

LEMMA SameScan ==
  ASSUME file' = file, sought' = sought, room' = room
  PROVE  \A here, e, s, a, f : ScanOK(here, e, s, a, f) => ScanOK(here, e, s, a, f)'
<1>1. Given' = Given /\ \A w : AddressOf(w)' = AddressOf(w)
  BY SameWords
<1>2. \A q, f : FoundUpTo(q, f)' = FoundUpTo(q, f)
  BY <1>1 DEF FoundUpTo, GivenBefore, GivenRank
<1>3. \A ls, L : LineAt(ls, L)' = LineAt(ls, L)
  BY DEF LineAt
<1>4. \A ls, L, i, j, here, a : Naming(ls, L, i, j, here, a)' = Naming(ls, L, i, j, here, a)
  BY <1>3 DEF Naming, FirstWord
<1>5. \A i : BeginsLine(i)' = BeginsLine(i)
  BY DEF BeginsLine
<1> QED
  BY <1>2, <1>3, <1>4, <1>5 DEF ScanOK

HostsType == file \in Seq(STRING) /\ sought \in Seq(LowerSet) /\ room \in Nat

(* In an ordinary file the lookup is where it should be, never reads beyond *)
(* what it has, and returns only when there is no more to read or no room.  *)
HostsScan ==
  Ordinary /\ Len(sought) \in 1 .. MaxFqdn =>
    ScanOK(pos, fill, state, lineAddr, found) /\ reading # "overrun" /\ (reading = "done" => ~Loops)

HostsInv ==
  /\ reading = "idle" => pos = 1 /\ state = "AT_IP" /\ found = <<>>
  /\ reading \in {"loop", "done", "overrun"} => HostsType /\ HostsScan

LEMMA HostsInvInit == HostsInit => HostsInv
  BY DEF HostsInit, HostsInv

LEMMA HostsInvPull ==
  ASSUME HostsInv, NEW text \in Files, NEW string \in Sought, NEW n \in Rooms, Pull(text, string, n)
  PROVE  HostsInv'
<1>1. text \in Seq(STRING) /\ string \in Seq(STRING) /\ n \in Nat /\ BufSize \in Nat \ {0} /\ MaxFqdn \in Nat
  BY HostsFileAssumption
<1>2. pos' = 1 /\ state' = "AT_IP" /\ found' = <<>> /\ file' = text /\ sought' = LowerChars(string) /\ room' = n
  BY DEF Pull, HostsInv
<1>3. HostsType'
  BY <1>1, <1>2, LowerCharsType DEF HostsType
<1>4. reading' \in {"loop", "done"} /\ (reading' = "done" <=> Len(string) > MaxFqdn)
  BY DEF Pull
<1>5. Len(sought') = Len(string)
  <2>1. LowerChars(string) \in Seq(LowerSet) /\ DOMAIN LowerChars(string) = DOMAIN string
    BY <1>1, LowerCharsType
  <2> QED
    BY <1>1, <1>2, <2>1
<1>6. /\ fill' \in 1 .. Len(text) + 1
      /\ fill' = 1 => fill' = Len(text) + 1
  <2> DEFINE S == {BufSize, Len(text)}
             m == Min(S)
  <2>1. S \subseteq Nat /\ S # {}
    BY <1>1
  <2>2. m \in S /\ \A k \in S : m <= k
    <3> HIDE DEF S
    <3> QED
      BY <2>1, MinNat
  <2>3. (m = BufSize \/ m = Len(text)) /\ m <= Len(text) /\ fill' = m + 1
    <3>1. fill' = m + 1
      BY DEF Pull
    <3> HIDE DEF m
    <3> QED
      BY <2>2, <3>1
  <2> HIDE DEF m, S
  <2> QED
    BY <1>1, <2>3
<1>7. PICK here, e, s, a, f : here = pos' /\ e = fill' /\ s = state' /\ a = lineAddr' /\ f = found'
  OBVIOUS
<1>8. ScanOK(here, e, s, a, f)'
  <2>1. here = 1 /\ s = "AT_IP" /\ f = <<>>
    BY <1>2, <1>7
  <2>2. FoundUpTo(1, <<>>)'
    <3>1. Len(file') \in Nat
      BY <1>1, <1>2
    <3>2. \A w \in Given' : w[1] \in 1 .. Len(file')
      BY DEF Given, Words
    <3>3. GivenBefore(1)' = {}
      BY <3>1, <3>2 DEF GivenBefore
    <3> QED
      BY <3>3, FS_EmptySet DEF FoundUpTo
  <2>3. BeginsLine(1)'
    BY DEF BeginsLine
  <2>4. <<>> \in Seq(Ips) /\ Len(<<>>) <= room'
    BY <1>1, <1>2
  <2>5. FoundUpTo(here, f)' /\ BeginsLine(here)' /\ f \in Seq(Ips) /\ Len(f) <= room'
    BY <2>1, <2>2, <2>3, <2>4
  <2> QED
    BY <1>1, <1>2, <1>6, <1>7, <2>1, <2>5 DEF ScanOK
<1>9. ScanOK(pos, fill, state, lineAddr, found)'
  BY <1>7, <1>8
<1>10. Len(sought') \in 1 .. MaxFqdn => reading' = "loop"
  BY <1>1, <1>4, <1>5
<1>11. HostsScan'
  BY <1>9, <1>10 DEF HostsScan
<1> QED
  BY <1>3, <1>4, <1>11 DEF HostsInv

(* A turn of the loop in the same file. *)
LEMMA HostsTurned ==
  ASSUME HostsInv, reading = "loop", reading' \in {"loop", "done", "overrun"},
         file' = file, sought' = sought, room' = room,
         NEW here, here = pos', NEW e, e = fill', NEW s, s = state', NEW a, a = lineAddr', NEW f, f = found',
         Ordinary /\ Len(sought) \in 1 .. MaxFqdn =>
           ScanOK(here, e, s, a, f) /\ reading' # "overrun" /\ (reading' = "done" => ~(Len(f) < room /\ here # e))
  PROVE  HostsInv'
<1>1. HostsType'
  BY DEF HostsInv, HostsType
<1>2. HostsScan'
  <2> SUFFICES ASSUME Ordinary', Len(sought') \in 1 .. MaxFqdn PROVE HostsScan'
    BY DEF HostsScan
  <2>1. Ordinary /\ Len(sought) \in 1 .. MaxFqdn
    BY SameWords
  <2>2. ScanOK(here, e, s, a, f)'
    BY <2>1, SameScan
  <2>3. ScanOK(pos, fill, state, lineAddr, found)'
    BY <2>2
  <2>4. reading' = "done" => ~(Len(found') < room' /\ pos' # fill')
    BY <2>1
  <2>5. pos' \in Int /\ fill' \in Int
    <3>1. here \in 1 .. Len(file) + 1 /\ e \in here .. Len(file) + 1
      BY <2>1 DEF ScanOK
    <3> QED
      BY <3>1
  <2>6. reading' = "done" => ~Loops'
    <3>1. ASSUME Used' # 0 PROVE here # e
      <4>1. here \in Int /\ e \in Int /\ Used' = e - here
        BY <2>5 DEF Used
      <4>2. \A i, j \in Int : j - i # 0 => i # j
        OBVIOUS
      <4> QED
        BY <3>1, <4>1, <4>2, Zenon
    <3>2. Loops' <=> Len(found') < room' /\ Used' # 0
      BY DEF Loops
    <3> QED
      BY <2>4, <3>1, <3>2, Zenon
  <2> QED
    BY <2>1, <2>3, <2>6 DEF HostsScan
<1> QED
  BY <1>1, <1>2 DEF HostsInv

LEMMA HostsAt ==
  ASSUME HostsInv, reading = "loop", Loops, Ordinary, Len(sought) \in 1 .. MaxFqdn
  PROVE  /\ file \in Seq(STRING) /\ sought \in Seq(LowerSet) /\ room \in Nat
         /\ ScanOK(pos, fill, state, lineAddr, found) /\ pos # fill /\ Len(found) < room
         /\ Refilled = WindowEnd(pos)
<1>1. HostsType /\ ScanOK(pos, fill, state, lineAddr, found)
  BY DEF HostsInv, HostsScan
<1>2. pos # fill /\ Len(found) < room
  <2>1. pos \in 1 .. Len(file) + 1 /\ fill \in pos .. Len(file) + 1
    BY <1>1 DEF ScanOK
  <2>2. Len(file) \in Nat
    BY <1>1 DEF HostsType
  <2> QED
    BY <2>1, <2>2 DEF Loops, Used
<1>3. Refilled = WindowEnd(pos)
  BY DEF Refilled, WindowEnd
<1> QED
  BY <1>1, <1>2, <1>3 DEF HostsType

LEMMA HostsInvAtIp ==
  ASSUME HostsInv, AtIp
  PROVE  HostsInv'
<1>1. PICK here, e, s, a, f : here = pos' /\ e = fill' /\ s = state' /\ a = lineAddr' /\ f = found'
  OBVIOUS
<1>2. /\ reading = "loop" /\ Loops /\ state = "AT_IP" /\ reading' = reading /\ f = found /\ e = Refilled
      /\ file' = file /\ sought' = sought /\ room' = room
  BY <1>1 DEF AtIp
<1>3. ASSUME Ordinary, Len(sought) \in 1 .. MaxFqdn PROVE ScanOK(here, e, s, a, f)
  <2>1. /\ file \in Seq(STRING) /\ ScanOK(pos, fill, "AT_IP", lineAddr, found) /\ pos # fill
        /\ e = WindowEnd(pos)
    BY <1>2, <1>3, HostsAt
  <2>2. PICK from : from = SkipAll(pos, e, {Blank})
    OBVIOUS
  <2>3. /\ here = FindNextWs(from, e)
        /\ a = IF EndsAt(here, e, {Hash, NewLine}) THEN NoIp ELSE ParseIp(SubSeq(file, from, here - 1))
        /\ s = IF a # NoIp THEN "AT_NAME" ELSE "SKIPPING_LINE"
    BY <1>1, <2>2, Zenon DEF AtIp, SkipWs
  <2> QED
    BY <1>2, <1>3, <2>1, <2>2, <2>3, ScanAtIp
<1> QED
  BY <1>1, <1>2, <1>3, HostsTurned

LEMMA HostsInvAtName ==
  ASSUME HostsInv, AtName
  PROVE  HostsInv'
<1>1. PICK here, e, s, a, f : here = pos' /\ e = fill' /\ s = state' /\ a = lineAddr' /\ f = found'
  OBVIOUS
<1>2. /\ reading = "loop" /\ Loops /\ state = "AT_NAME" /\ reading' = reading /\ a = lineAddr /\ e = Refilled
      /\ file' = file /\ sought' = sought /\ room' = room
  BY <1>1 DEF AtName
<1>3. ASSUME Ordinary, Len(sought) \in 1 .. MaxFqdn PROVE ScanOK(here, e, s, a, f)
  <2>1. /\ file \in Seq(STRING) /\ sought \in Seq(LowerSet) /\ room \in Nat /\ Len(sought) >= 1
        /\ ScanOK(pos, fill, "AT_NAME", lineAddr, found) /\ Len(found) < room
        /\ e = WindowEnd(pos)
    <3>1. Len(sought) >= 1
      BY <1>3
    <3> QED
      BY <1>2, <1>3, <3>1, HostsAt
  <2>2. PICK from : from = SkipAll(pos, e, {Blank})
    OBVIOUS
  <2>3. PICK g : g = IF LowerChars(SubSeq(file, from, here - 1)) = sought THEN Append(found, lineAddr) ELSE found
    OBVIOUS
  <2>4. /\ here = FindNextWs(from, e)
        /\ EndsAt(here, e, {Hash}) => s = "SKIPPING_LINE" /\ f = found
        /\ ~EndsAt(here, e, {Hash}) => f = g /\ s = AfterName(file[here])
    BY <1>1, <2>2, <2>3, Zenon DEF AtName, SkipWs
  <2>5. /\ EndsAt(here, e, {Hash}) => ScanOK(here, e, "SKIPPING_LINE", lineAddr, found)
        /\ ~EndsAt(here, e, {Hash}) => ScanOK(here, e, AfterName(file[here]), lineAddr, g)
    BY <1>3, <2>1, <2>2, <2>3, <2>4, ScanAtName
  <2> QED
    BY <1>2, <2>4, <2>5
<1> QED
  BY <1>1, <1>2, <1>3, HostsTurned

LEMMA HostsInvSkipLine ==
  ASSUME HostsInv, SkipLine
  PROVE  HostsInv'
<1>1. PICK here, e, s, a, f : here = pos' /\ e = fill' /\ s = state' /\ a = lineAddr' /\ f = found'
  OBVIOUS
<1>2. PICK it, n : it = SkipAll(pos, e, ToSet(file) \ {NewLine}) /\ n = Min({BufSize, it - pos + 1})
  OBVIOUS
<1>3. /\ reading = "loop" /\ Loops /\ state = "SKIPPING_LINE" /\ a = lineAddr /\ f = found /\ e = Refilled
      /\ file' = file /\ sought' = sought /\ room' = room
      /\ s = IF it # e THEN "AT_IP" ELSE state
      /\ IF n <= e - pos THEN here = pos + n /\ reading' = reading ELSE reading' = "overrun" /\ here = pos
  BY <1>1, <1>2, Zenon DEF SkipLine
<1>4. ASSUME Ordinary, Len(sought) \in 1 .. MaxFqdn PROVE ScanOK(here, e, s, a, f) /\ reading' = reading
  <2>1. /\ file \in Seq(STRING) /\ ScanOK(pos, fill, "SKIPPING_LINE", lineAddr, found)
        /\ e = WindowEnd(pos)
    BY <1>3, <1>4, HostsAt
  <2>2. it # e /\ n <= e - pos /\ ScanOK(pos + n, e, "AT_IP", lineAddr, found)
    BY <1>2, <2>1, ScanSkipLine, ZenonT(60)
  <2> QED
    BY <1>3, <2>2
<1> QED
  BY <1>1, <1>3, <1>4, HostsTurned

LEMMA HostsInvReturns ==
  ASSUME HostsInv, LookupReturns
  PROVE  HostsInv'
<1>1. PICK here, e, s, a, f : here = pos' /\ e = fill' /\ s = state' /\ a = lineAddr' /\ f = found'
  OBVIOUS
<1>2. /\ reading = "loop" /\ ~Loops /\ reading' = "done"
      /\ here = pos /\ e = fill /\ s = state /\ a = lineAddr /\ f = found
      /\ file' = file /\ sought' = sought /\ room' = room
  BY <1>1 DEF LookupReturns
<1>3. ASSUME Ordinary, Len(sought) \in 1 .. MaxFqdn PROVE ScanOK(here, e, s, a, f) /\ ~(Len(f) < room /\ here # e)
  <2>1. HostsType /\ ScanOK(here, e, s, a, f)
    BY <1>2, <1>3 DEF HostsInv, HostsScan
  <2>2. here \in 1 .. Len(file) + 1 /\ e \in here .. Len(file) + 1 /\ Len(file) \in Nat
    BY <2>1 DEF ScanOK, HostsType
  <2>3. ~(Len(f) < room /\ here # e)
    BY <1>2, <2>2 DEF Loops, Used
  <2> QED
    BY <2>1, <2>3
<1> QED
  BY <1>1, <1>2, <1>3, HostsTurned

LEMMA HostsInvNext ==
  ASSUME HostsInv, [HostsNext]_hostsVars
  PROVE  HostsInv'
<1>1. CASE \E text \in Files, string \in Sought, n \in Rooms : Pull(text, string, n)
  BY <1>1, HostsInvPull
<1>2. CASE ReadFails
  BY <1>2 DEF ReadFails, HostsInv
<1>3. CASE HostsTurn
  BY <1>3, HostsInvAtIp, HostsInvAtName, HostsInvSkipLine, HostsInvReturns DEF HostsTurn
<1>4. CASE UNCHANGED hostsVars
  <2>1. /\ reading' = reading /\ file' = file /\ sought' = sought /\ room' = room /\ pos' = pos /\ fill' = fill
        /\ state' = state /\ lineAddr' = lineAddr /\ found' = found
    BY <1>4 DEF hostsVars
  <2>2. PICK here, e, s, a, f : here = pos /\ e = fill /\ s = state /\ a = lineAddr /\ f = found
    OBVIOUS
  <2>3. ScanOK(pos, fill, state, lineAddr, found) => ScanOK(pos, fill, state, lineAddr, found)'
    <3>1. ScanOK(here, e, s, a, f) => ScanOK(here, e, s, a, f)'
      BY <2>1, SameScan
    <3>2. here = pos' /\ e = fill' /\ s = state' /\ a = lineAddr' /\ f = found'
      BY <2>1, <2>2
    <3> QED
      BY <2>2, <3>1, <3>2
  <2>4. HostsScan => HostsScan'
    BY <2>1, <2>3, SameWords DEF HostsScan, Loops, Used
  <2>5. HostsType => HostsType'
    BY <2>1 DEF HostsType
  <2> QED
    BY <2>1, <2>4, <2>5 DEF HostsInv
<1> QED
  BY <1>1, <1>2, <1>3, <1>4 DEF HostsNext

LEMMA HostsInvExact == HostsInv => HostsExact
<1> SUFFICES ASSUME HostsInv, Ordinary, Len(sought) \in 1 .. MaxFqdn, reading \in {"done", "overrun"}
             PROVE  HostsExact
  BY DEF HostsExact
<1>1. /\ HostsType /\ ScanOK(pos, fill, state, lineAddr, found) /\ reading = "done" /\ ~Loops
  BY DEF HostsInv, HostsScan
<1>2. pos \in Int /\ fill \in Int /\ Len(file) \in Nat /\ room \in Nat
  BY <1>1 DEF ScanOK, HostsType
<1>3. ~(Len(found) < room /\ pos # fill)
  BY <1>1, <1>2 DEF Loops, Used
<1>4. ExactlyFound(found)
  BY <1>1, <1>2, <1>3, ScanReturns
<1> QED
  BY <1>1, <1>4 DEF HostsExact, ExactlyFound, GivenRank

(* A lookup in the hosts file, HostsFileCache::pull(), gives the addresses  *)
(* of exactly the lines that name what is sought, in their order and as     *)
(* many as there is room for, whatever the file, the name and the size of   *)
(* the buffer that its lines fit are: wherever the buffer cuts it.          *)
THEOREM HostsReadExactly == HostsSpec => []HostsExact
<1>1. HostsInv /\ [HostsNext]_hostsVars => HostsInv'
  BY HostsInvNext
<1> QED
  BY <1>1, HostsInvInit, HostsInvExact, PTL DEF HostsSpec

=============================================================================
