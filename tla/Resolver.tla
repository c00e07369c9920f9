------------------------------ MODULE Resolver ------------------------------
(***************************************************************************)
(* corosig::dns::CachelessResolver (include/corosig/io/dns/Resolver.hpp,   *)
(* src/io/dns/Resolver.cpp).                                               *)
(*                                                                         *)
(* Each request is a coroutine that waits in co_await request; a sender of *)
(* its own repeats the query to the servers every two seconds; one         *)
(* receiver, shared by all and started again whenever it has ended, reads  *)
(* the socket, finds the request by the 16-bit id of the answer, stores    *)
(* the result and schedules the request in the reactor.  The network is    *)
(* external: once a query is sent, answers to it may come at any time, in  *)
(* any order and number, or never.                                         *)
(***************************************************************************)
EXTENDS Naturals, SequencesExt, FiniteSets

CONSTANTS
  Requests,  \* resolve_name coroutines
  Names,     \* questions: a name with its record type
  MaxId      \* the largest request id (2^16 - 1 in the build)

ASSUME ResolverAssumption == IsFiniteSet(Requests) /\ MaxId \in Nat \ {0}

VARIABLES
  st,        \* what each request's coroutine is doing
  id, name,  \* request.question
  result,    \* request.result
  of,        \* the request whose answer was stored in result
  sender,    \* its periodic_background_send
  pending,   \* m_pending_requests, in order of insertion
  ready,     \* requests linked in the reactor's m_ready
  receiver,  \* m_receiver
  asked,     \* requests whose query has reached a server
  broken     \* a request was linked in m_ready twice

vars == <<st, id, name, result, of, sender, pending, ready, receiver, asked, broken>>

Ids == 0 .. MaxId

(* "waiting": in co_await request; "spinning": in the loop of               *)
(* process_request that looks for collisions; "gone": dropped.              *)
States == {"idle", "waiting", "spinning", "done", "gone"}
Results == {"nothing", "tooMany", "error", "sendError", "answer", "badAnswer"}
Senders == {"none", "sending", "sleeping", "ended"}

Init ==
  /\ st = [q \in Requests |-> "idle"]
  /\ id = [q \in Requests |-> 0]
  /\ name \in [Requests -> Names]
  /\ result = [q \in Requests |-> "nothing"]
  /\ of = [q \in Requests |-> q]
  /\ sender = [q \in Requests |-> "none"]
  /\ pending = <<>>
  /\ ready = {}
  /\ receiver = "completed"
  /\ asked = {}
  /\ broken = FALSE

(* One thread runs everything: a loop that does not end stops it all, and   *)
(* so does the failed assertion of a list hook that is linked twice.        *)
Alive == ~broken /\ \A q \in Requests : st[q] # "spinning"

(* The hook of a node leaves its list, if it is linked in it. *)
Unlink(s, q) == RemoveFirst(s, q)

(* Reactor::schedule. *)
Schedule(q) ==
  /\ ready' = ready \cup {q}
  /\ broken' = (q \in ready)

-----------------------------------------------------------------------------
(* Starting a request.                                                      *)

(* No id left, an empty list of servers, a name that cannot be encoded, or  *)
(* a frame that cannot be allocated: nothing of the request remains.        *)
Refuse(q) ==
  /\ Alive /\ st[q] = "idle"
  /\ \E e \in {"tooMany", "error"} :
       /\ e = "tooMany" => Len(pending) = MaxId
       /\ result' = [result EXCEPT ![q] = e]
  /\ st' = [st EXCEPT ![q] = "done"]
  /\ UNCHANGED <<id, name, of, sender, pending, ready, receiver, asked, broken>>

(* The loop against collisions moves an iterator and never the id: it ends  *)
(* at once, except for the largest id, for which it starts over at the      *)
(* least pending id and so never ends when that is the largest too.         *)
Spins(i) == i = MaxId /\ pending # <<>> /\ \A k \in DOMAIN pending : id[pending[k]] = MaxId

(* The request is inserted, and its sender starts: it suspends in send_to,  *)
(* or its own frame cannot be allocated, which nobody notices.              *)
Begin(q) ==
  /\ Alive /\ st[q] = "idle" /\ Len(pending) # MaxId
  /\ \E i \in Ids :
       /\ id' = [id EXCEPT ![q] = i]
       /\ IF Spins(i)
            THEN /\ st' = [st EXCEPT ![q] = "spinning"]
                 /\ UNCHANGED <<pending, sender>>
            ELSE /\ st' = [st EXCEPT ![q] = "waiting"]
                 /\ pending' = Append(pending, q)
                 /\ \E s \in {"sending", "none"} : sender' = [sender EXCEPT ![q] = s]
  /\ UNCHANGED <<name, result, of, ready, receiver, asked, broken>>

-----------------------------------------------------------------------------
(* periodic_background_send.                                                *)

(* The sender is suspended in UdpSocket::send_to, and its poll is over. *)
CanSend(q) == Alive /\ sender[q] = "sending"

(* Mutant: a receiver that has ended is not started again. *)
ReceiverOnce ==
  receiver' \in IF receiver = "completed" /\ asked = {} THEN {"receiving", "completed"} ELSE {receiver}

(* A completed receiver is replaced by a new one, which ends at once if     *)
(* nothing is pending or its frame cannot be allocated.                     *)
RestartReceiver ==
  receiver' \in IF receiver = "completed" /\ pending # <<>> THEN {"receiving", "completed"} ELSE {receiver}

SendOk(q) ==
  /\ CanSend(q)
  /\ RestartReceiver
  /\ asked' = asked \cup {q}
  /\ sender' = [sender EXCEPT ![q] = "sleeping"]
  /\ UNCHANGED <<st, id, name, result, of, pending, ready, broken>>

(* The result is replaced whatever it is, and the request scheduled         *)
(* whether or not the receiver has scheduled it already.                    *)
SendFails(q) ==
  /\ CanSend(q)
  /\ RestartReceiver
  /\ result' = [result EXCEPT ![q] = "sendError"]
  /\ pending' = Unlink(pending, q)
  /\ Schedule(q)
  /\ sender' = [sender EXCEPT ![q] = "ended"]
  /\ UNCHANGED <<st, id, name, of, asked>>

(* Two seconds later, the next server. *)
SendAgain(q) ==
  /\ Alive /\ sender[q] = "sleeping"
  /\ sender' = [sender EXCEPT ![q] = "sending"]
  /\ UNCHANGED <<st, id, name, result, of, pending, ready, receiver, asked, broken>>

-----------------------------------------------------------------------------
(* receive_server_answers.                                                  *)

(* The receiver is suspended in UdpSocket::recv_from, and its poll is over. *)
CanReceive == Alive /\ receiver = "receiving"

(* m_pending_requests.find: the first of the requests with that id. *)
Find(i) == SelectInSeq(pending, LAMBDA p : id[p] = i)

(* Mutant: an answer is trusted for its id. *)
TrustId(p, q, kind) == IF kind = "good" THEN "answer" ELSE "badAnswer"

(* validate_response and process_server_answer_impl for request p, given an *)
(* answer to q's question: a wrong code, a truncated or undecodable message *)
(* or another question end the request with an error.                       *)
Validate(p, q, kind) ==
  IF kind = "good" /\ name[q] = name[p] THEN "answer" ELSE "badAnswer"

(* The loop of the receiver ends when nothing is pending any more. *)
LoopReceiver(left) == receiver' = IF left = <<>> THEN "completed" ELSE "receiving"

(* Mutant: the request stays in m_pending_requests. *)
DeliverLinked(q, kind) ==
  /\ Find(id[q]) # 0
  /\ LET p == pending[Find(id[q])] IN
     /\ result' = [result EXCEPT ![p] = Validate(p, q, kind)]
     /\ of' = [of EXCEPT ![p] = q]
     /\ pending' = pending
     /\ Schedule(p)

(* An answer to q's query reaches the first request with its id. *)
Deliver(q, kind) ==
  /\ Find(id[q]) # 0
  /\ LET p == pending[Find(id[q])] IN
     /\ result' = [result EXCEPT ![p] = Validate(p, q, kind)]
     /\ of' = [of EXCEPT ![p] = q]
     /\ pending' = Unlink(pending, p)
     /\ Schedule(p)

Receive(q, kind) ==
  /\ CanReceive /\ q \in asked
  /\ Deliver(q, kind)
  /\ LoopReceiver(pending')
  /\ UNCHANGED <<st, id, name, sender, asked>>

(* A message too short for a header, or an answer nobody waits for. *)
Ignore(q) ==
  /\ CanReceive /\ q \in asked
  /\ LoopReceiver(pending)
  /\ UNCHANGED <<st, id, name, result, of, sender, pending, ready, asked, broken>>

(* recv_from fails, or its frame cannot be allocated: the receiver ends,    *)
(* with requests pending.                                                   *)
ReceiveFails ==
  /\ CanReceive
  /\ receiver' = "completed"
  /\ UNCHANGED <<st, id, name, result, of, sender, pending, ready, asked, broken>>

-----------------------------------------------------------------------------
(* The request's frames are destroyed, its sender with them, and its hooks  *)
(* unlink themselves.                                                       *)
Leave(q, s) ==
  /\ st' = [st EXCEPT ![q] = s]
  /\ sender' = [sender EXCEPT ![q] = "none"]
  /\ pending' = Unlink(pending, q)
  /\ ready' = ready \ {q}
  /\ UNCHANGED <<id, name, result, of, receiver, asked, broken>>

Resume(q) == Alive /\ q \in ready /\ Leave(q, "done")

Cancel(q) == Alive /\ st[q] = "waiting" /\ Leave(q, "gone")

Next ==
  \/ ReceiveFails
  \/ \E q \in Requests :
       \/ Refuse(q) \/ Begin(q) \/ SendOk(q) \/ SendFails(q) \/ SendAgain(q)
       \/ Receive(q, "good") \/ Receive(q, "bad") \/ Ignore(q)
       \/ Resume(q) \/ Cancel(q)

Spec == Init /\ [][Next]_vars

(* The reactor resumes what is ready; frames are not refused for ever, and  *)
(* a query that is repeated for ever is answered in time for a receiver     *)
(* that listens again and again.                                            *)
Fairness ==
  \A q \in Requests :
    /\ WF_vars(Resume(q))
    /\ WF_vars(SendAgain(q)) /\ WF_vars(SendOk(q) \/ SendFails(q))
    /\ SF_vars(SendOk(q) /\ receiver' = "receiving")
    /\ SF_vars(Receive(q, "good"))

FairSpec == Spec /\ Fairness

-----------------------------------------------------------------------------
(* Every variable stays in its range; ready holds suspended requests only. *)
TypeOK ==
  /\ st \in [Requests -> States]
  /\ id \in [Requests -> Ids]
  /\ name \in [Requests -> Names]
  /\ result \in [Requests -> Results]
  /\ of \in [Requests -> Requests]
  /\ sender \in [Requests -> Senders]
  /\ pending \in Seq(Requests) /\ Len(pending) <= MaxId
  /\ ready \subseteq {q \in Requests : st[q] = "waiting"}
  /\ receiver \in {"completed", "receiving"}
  /\ asked \subseteq Requests
  /\ broken \in BOOLEAN

(* A request that succeeds got the answer to its own question, also when    *)
(* ids collide, answers come late or twice, and ids are used again.         *)
RightAnswer == \A q \in Requests : result[q] = "answer" => name[of[q]] = name[q]

(* m_pending_requests holds the suspended requests without a result, each   *)
(* once: no answer can reach a request that has one, or a frame that is     *)
(* gone, and no waiting request is forgotten.                               *)
PendingExact ==
  /\ TypeOK
  /\ ToSet(pending) = {q \in Requests : st[q] = "waiting" /\ result[q] = "nothing"}
  /\ IsInjective(pending)

(* A request whose sender runs ends, though the receiver may end many times *)
(* with requests pending, unless the thread spins or a hook is linked twice. *)
Resolved ==
  \A q \in Requests :
    (st[q] = "waiting" /\ sender[q] # "none") ~> (st[q] # "waiting" \/ ~Alive)

=============================================================================
