------------------------------ MODULE DnsCache ------------------------------
(***************************************************************************)
(* The caches under the caching dns::Resolver (Resolver.hpp): MemoryCache  *)
(* (include/corosig/io/dns/MemoryCache.hpp, src/io/dns/MemoryCache.cpp)    *)
(* and dns::Cache (Cache.hpp), which looks into the hosts file first.      *)
(*                                                                         *)
(* The memory cache keeps name headers in a tree ordered by name and       *)
(* address headers in two places: the list of their name, newest first,    *)
(* and a tree ordered by time of expiry.  Its methods do not suspend; they *)
(* are taken apart here, one allocation or deallocation per step, so that  *)
(* a failed allocation may come at each.  Clients are suspended while the  *)
(* hosts file is read (what is in it is the subject of HostsFile) and      *)
(* while the servers are asked.  A name is a number: 1 .. Letters are the  *)
(* upper-case names and Letters + 1 .. 2 * Letters the same in lower case, *)
(* in the order of their characters; none is too long to be looked up.  An *)
(* entry of a client's buffer is <<name answered, address, expires_at>>.   *)
(***************************************************************************)
EXTENDS Naturals, SequencesExt, FiniteSetsExt

CONSTANTS
  Clients,   \* resolve_name coroutines
  Letters,   \* number of names, not counting their case
  RawNames,  \* the names that clients ask for
  Blocks,    \* bound on headers that are allocated at a time
  MaxTime,   \* bound on the clock
  Reuse      \* clients call with the same buffer again, or with a new one

ASSUME DnsCacheAssumption ==
  /\ {Letters, Blocks, MaxTime} \subseteq Nat
  /\ RawNames \subseteq 1 .. 2 * Letters
  /\ Reuse \in BOOLEAN

VARIABLES
  now,       \* SteadyClock::now()
  names,     \* m_names, in tree order: blocks of name headers
  label,     \* the name a name header stores
  ips,       \* its list of address headers
  addr,      \* address headers: parent, expires_at and addresses
  byExpiry,  \* m_addrs_by_expire_time, in order
  mode,      \* the method that runs
  task,      \* its arguments and local variables
  client,    \* where each client is, and the name it asks for
  out        \* what is in its buffer

cacheVars == <<now, names, label, ips, addr, byExpiry, mode, task, client, out>>

Places == 1 .. Blocks
Lower(n) == IF n <= Letters THEN n + Letters ELSE n
Stored == Letters + 1 .. 2 * Letters
Expiries == 1 .. MaxTime + 1
Addresses == {"x", "y"}
Room == Cardinality(Addresses)

NoAddr == [parent |-> 0, expires |-> 0, addrs |-> {}]
NoCall == [at |-> "idle", name |-> 0]
NoTask == [name |-> 0, header |-> 0, new |-> FALSE, left |-> {}, made |-> <<>>]

(* Headers in use, and those that the allocator may still give. *)
LiveNames == ToSet(names)
LiveAddrs == {a \in Places : addr[a] # NoAddr}
FreeIds == Places \ (LiveNames \cup LiveAddrs)

CacheInit ==
  /\ now = 0
  /\ names = <<>>
  /\ label = [i \in Places |-> 0]
  /\ ips = [i \in Places |-> <<>>]
  /\ addr = [i \in Places |-> NoAddr]
  /\ byExpiry = <<>>
  /\ mode = "idle"
  /\ task = NoTask
  /\ client = [c \in Clients |-> NoCall]
  /\ out = [c \in Clients |-> <<>>]

(* The number of elements before the place where x belongs. *)
LowerBound(x) == Cardinality({k \in DOMAIN names : label[names[k]] < x})

-----------------------------------------------------------------------------
(* prune(): address headers that have expired, from the one that expires    *)
(* first, and names that are left without any.                              *)

(* Mutant: one tick too early. *)
ExpiredEarly(a) == addr[a].expires <= now + 1

Expired(a) == addr[a].expires <= now

PruneNext == mode = "pruning" /\ byExpiry # <<>> /\ Expired(Head(byExpiry))

LastOf(n, rest) == rest = <<>>

PruneOne ==
  /\ PruneNext
  /\ LET a == Head(byExpiry)
         n == addr[a].parent
         rest == RemoveFirst(ips[n], a) IN
     /\ byExpiry' = Tail(byExpiry)
     /\ addr' = [addr EXCEPT ![a] = NoAddr]
     /\ ips' = [ips EXCEPT ![n] = rest]
     /\ names' = IF LastOf(n, rest) THEN RemoveFirst(names, n) ELSE names
     /\ label' = IF LastOf(n, rest) THEN [label EXCEPT ![n] = 0] ELSE label
  /\ UNCHANGED <<now, mode, task, client, out>>

-----------------------------------------------------------------------------
(* pull(): looked up in lower case, skipping what has expired; the newest   *)
(* header first.                                                            *)

(* The address headers of a name. *)
Found(raw) ==
  LET k == LowerBound(Lower(raw)) + 1
  IN IF k \in DOMAIN names /\ label[names[k]] = Lower(raw) THEN ips[names[k]] ELSE <<>>

(* Those of them that lookups take. *)
Reached(raw) == {a \in ToSet(Found(raw)) : ~Expired(a)}

(* What a lookup takes of an address header. *)
Entries(a) ==
  LET xs == SetToSeq(addr[a].addrs)
  IN [n \in DOMAIN xs |-> <<xs[n][1], xs[n][2], addr[a].expires>>]

Lookup(raw) ==
  LET list == Found(raw)
      upTo[k \in 0 .. Len(list)] ==
        IF k = 0 THEN <<>>
        ELSE IF Expired(list[k]) THEN upTo[k - 1] ELSE upTo[k - 1] \o Entries(list[k])
  IN upTo[Len(list)]

(* The span `out` when entries have been written to its beginning: what is  *)
(* behind them is what the caller has left there.                           *)
Written(c, entries) ==
  LET n == IF Len(entries) < Room THEN Len(entries) ELSE Room
  IN SubSeq(entries, 1, n) \o SubSeq(out[c], n + 1, Len(out[c]))

Keep(c, buffer) == out' = [out EXCEPT ![c] = IF Reuse THEN buffer ELSE <<>>]

(* Resolver::resolve_name_impl: prune(), then Cache::pull(). *)
Resolve(c, raw) ==
  /\ mode = "idle" /\ client[c].at = "idle"
  /\ mode' = "pruning"
  /\ client' = [client EXCEPT ![c] = [at |-> "hosts", name |-> raw]]
  /\ UNCHANGED <<now, names, label, ips, addr, byExpiry, task, out>>

PruneEnds ==
  /\ mode = "pruning" /\ ~PruneNext
  /\ mode' = "idle"
  /\ UNCHANGED <<now, names, label, ips, addr, byExpiry, task, client, out>>

(* Cache::pull_impl: the hosts file has the name.  Its addresses expire at  *)
(* once, and are never pushed.                                              *)
HostsHit(c) ==
  /\ mode = "idle" /\ client[c].at = "hosts"
  /\ client' = [client EXCEPT ![c] = NoCall]
  /\ Keep(c, Written(c, <<<<client[c].name, "x", 0>>>>))
  /\ UNCHANGED <<now, names, label, ips, addr, byExpiry, mode, task>>

(* It has not, or could not be read: the memory cache is looked into, as it *)
(* is by then.                                                              *)
PullHit(c) ==
  /\ mode = "idle" /\ client[c].at = "hosts"
  /\ Lookup(client[c].name) # <<>>
  /\ client' = [client EXCEPT ![c] = NoCall]
  /\ Keep(c, Written(c, Lookup(client[c].name)))
  /\ UNCHANGED <<now, names, label, ips, addr, byExpiry, mode, task>>

PullMiss(c) ==
  /\ mode = "idle" /\ client[c].at = "hosts"
  /\ Lookup(client[c].name) = <<>>
  /\ client' = [client EXCEPT ![c].at = "servers"]
  /\ UNCHANGED <<now, names, label, ips, addr, byExpiry, mode, task, out>>

-----------------------------------------------------------------------------
(* push_impl(): the servers' answer to client c.                            *)

(* Addresses that have expired are left out; the others are grouped by      *)
(* expires_at, the earliest group first.                                    *)
Groups(batch) == {[expires |-> e, addrs |-> {<<f[1], f[2]>> : f \in {g \in batch : g[3] = e}}] :
                    e \in {f[3] : f \in {g \in batch : g[3] > now}}}

Earliest(groups) == CHOOSE g \in groups : \A h \in groups : g.expires <= h.expires

(* NameStorageHeader's constructor copies the name in lower case. *)
StoredName(raw) == Lower(raw)

(* The client's buffer when the servers have answered. *)
Received(c, answer) ==
  Written(c, SetToSeq({<<Lower(client[c].name), x[1], x[2]>> : x \in answer}))

(* The servers have answered; the whole span `out` is pushed.  The name is  *)
(* looked for as it was given, and inserted before the place found if it is *)
(* not there.  Without memory for it nothing happens.                       *)
PushName(c, answer) ==
  /\ mode = "idle" /\ client[c].at = "servers"
  /\ LET raw == client[c].name
         buffer == Received(c, answer)
         groups == Groups(ToSet(buffer))
         k == LowerBound(raw) + 1
         found == k \in DOMAIN names /\ label[names[k]] = raw
         n == IF found THEN names[k] ELSE Min(FreeIds)
     IN /\ found \/ FreeIds # {}
        /\ Keep(c, buffer)
        /\ task' = [name |-> raw, header |-> n, new |-> ~found, left |-> groups, made |-> <<>>]
        /\ \/ /\ found
              /\ UNCHANGED <<names, label, ips>>
           \/ /\ ~found
              /\ names' = InsertAt(names, k, n)
              /\ label' = [label EXCEPT ![n] = StoredName(raw)]
              /\ ips' = [ips EXCEPT ![n] = <<>>]
  /\ mode' = "pushing"
  /\ client' = [client EXCEPT ![c] = NoCall]
  /\ UNCHANGED <<now, addr, byExpiry>>

(* One address header: linked to its name at once, to the buffer next. *)
PushGroup ==
  /\ mode = "pushing" /\ task.left # {} /\ FreeIds # {}
  /\ LET g == Earliest(task.left)
         a == Min(FreeIds) IN
     /\ addr' = [addr EXCEPT ![a] = [parent |-> task.header, expires |-> g.expires, addrs |-> g.addrs]]
     /\ ips' = [ips EXCEPT ![task.header] = <<a>> \o @]
     /\ task' = [task EXCEPT !.left = @ \ {g}, !.made = Append(@, a)]
  /\ UNCHANGED <<now, names, label, byExpiry, mode, client, out>>

(* Mutant: the headers made so far stay in the list of their name. *)
KeepMade(s) == s

(* Destroying a header unlinks it. *)
DropMade(s) ==
  LET left[k \in 0 .. Len(task.made)] ==
        IF k = 0 THEN s ELSE RemoveFirst(left[k - 1], task.made[k])
  IN left[Len(task.made)]

(* An allocation fails (sorted_addrs or an address header): the guards      *)
(* destroy the headers made so far and the name if it is new.               *)
PushFails ==
  /\ mode = "pushing" /\ (task.made = <<>> \/ task.left # {})
  /\ ips' = [ips EXCEPT ![task.header] = DropMade(@)]
  /\ addr' = [a \in Places |-> IF a \in ToSet(task.made) THEN NoAddr ELSE addr[a]]
  /\ names' = IF task.new THEN RemoveFirst(names, task.header) ELSE names
  /\ label' = IF task.new THEN [label EXCEPT ![task.header] = 0] ELSE label
  /\ mode' = "idle"
  /\ task' = NoTask
  /\ UNCHANGED <<now, byExpiry, client, out>>

(* The place of a header in the tree of expiry times. *)
InsertByExpiry(s, a) ==
  InsertAt(s, 1 + Cardinality({k \in DOMAIN s : addr[s[k]].expires <= addr[a].expires}), a)

(* The tree when the headers made have been moved to it, in order. *)
Merged ==
  LET upTo[k \in 0 .. Len(task.made)] ==
        IF k = 0 THEN byExpiry ELSE InsertByExpiry(upTo[k - 1], task.made[k])
  IN upTo[Len(task.made)]

PushDone ==
  /\ mode = "pushing" /\ task.left = {}
  /\ byExpiry' = Merged
  /\ mode' = "idle"
  /\ task' = NoTask
  /\ UNCHANGED <<now, names, label, ips, addr, client, out>>

(* The servers fail, perhaps after a part of the answer has been written,   *)
(* or push() cannot allocate a name header, which is ignored: the cache is  *)
(* as before.                                                               *)
AskFails(c, answer) ==
  /\ mode = "idle" /\ client[c].at = "servers"
  /\ client' = [client EXCEPT ![c] = NoCall]
  /\ Keep(c, Received(c, answer))
  /\ UNCHANGED <<now, names, label, ips, addr, byExpiry, mode, task>>

Tick ==
  /\ mode = "idle" /\ now < MaxTime
  /\ now' = now + 1
  /\ UNCHANGED <<names, label, ips, addr, byExpiry, mode, task, client, out>>

(* Answers: up to one expiry time for each address, some of them past.  A   *)
(* complete answer may also have no address of the wanted family.           *)
Batches == {b \in SUBSET (Addresses \X Expiries) : \A p, q \in b : p[1] = q[1] => p = q}

(* ~MemoryCache(), between calls: the addresses go first, then the names.   *)
DestroyCache ==
  /\ mode = "idle" /\ \A c \in Clients : client[c].at = "idle"
  /\ names' = <<>> /\ byExpiry' = <<>>
  /\ label' = [i \in Places |-> 0]
  /\ ips' = [i \in Places |-> <<>>]
  /\ addr' = [i \in Places |-> NoAddr]
  /\ UNCHANGED <<now, mode, task, client, out>>

CacheNext ==
  \/ PruneOne \/ PruneEnds \/ PushGroup \/ PushFails \/ PushDone \/ Tick \/ DestroyCache
  \/ \E c \in Clients :
       \/ \E raw \in RawNames : Resolve(c, raw)
       \/ HostsHit(c) \/ PullHit(c) \/ PullMiss(c)
       \/ mode = "idle" /\ \E answer \in Batches : PushName(c, answer) \/ AskFails(c, answer)

CacheSpec == CacheInit /\ [][CacheNext]_cacheVars

-----------------------------------------------------------------------------
(* Types: every client's call and the clock. *)
CacheTypeOK ==
  /\ now \in 0 .. MaxTime
  /\ mode \in {"idle", "pruning", "pushing"}
  /\ client \in [Clients -> [at : {"idle", "hosts", "servers"}, name : RawNames \cup {0}]]

(* Every header in use belongs to a header that is in use, and no memory is *)
(* used twice.  Between operations the two indexes hold the same headers,   *)
(* each once: the tree of expiry times, in order, and the lists of names.   *)
IndexesAgree ==
  /\ CacheTypeOK
  /\ IsInjective(names) /\ LiveNames \cap LiveAddrs = {}
  /\ \A n \in LiveNames : label[n] \in Stored
  /\ \A a \in LiveAddrs : addr[a].parent \in LiveNames
  /\ mode # "pushing" =>
       /\ IsInjective(byExpiry) /\ ToSet(byExpiry) = LiveAddrs
       /\ \A i, j \in DOMAIN byExpiry :
            i < j => addr[byExpiry[i]].expires <= addr[byExpiry[j]].expires
       /\ \A n \in LiveNames :
            IsInjective(ips[n]) /\ ToSet(ips[n]) = {a \in LiveAddrs : addr[a].parent = n}

(* The facts of some address headers, and of what a push has still to do. *)
FactsOf(n, as) == UNION {{<<Lower(n), x, addr[a].expires>> : x \in addr[a].addrs} : a \in as}
FactsLeft == UNION {{<<Lower(task.name), x, g.expires>> : x \in g.addrs} : g \in task.left}

(* The cache as its users see it: what a lookup would find, without the     *)
(* headers that a push in progress may still take back, and what that push  *)
(* will add.                                                                *)
FactsSeen == UNION {FactsOf(raw, Reached(raw) \ ToSet(task.made)) : raw \in RawNames}
FactsDue == FactsLeft \cup FactsOf(task.name, ToSet(task.made))

Seen == INSTANCE CachePromise WITH clock <- now, facts <- FactsSeen, incoming <- FactsDue

(* The cache gives exactly the addresses that have been pushed for a name   *)
(* and have not expired, whatever was pruned, undone by a failed push or    *)
(* added while the client was reading the hosts file.                       *)
KeepsFacts == Seen!Spec

(* What is stored for a name is what the servers have answered for that     *)
(* name: resolve_name_impl pushes "new resolved addresses".                 *)
AnsweredOnly ==
  \A a \in LiveAddrs : \A x \in addr[a].addrs : x[1] = label[addr[a].parent]

=============================================================================
