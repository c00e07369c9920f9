---------------------------- MODULE CachePromise ----------------------------
(***************************************************************************)
(* What the resolver relies on of its cache (io/dns/ACache.hpp): facts are *)
(* stored all together or not at all, and are there until they expire.     *)
(* Trees, headers and pruning do not appear.  A fact is a name, an address *)
(* and the time at which it expires.                                       *)
(***************************************************************************)
EXTENDS Naturals

VARIABLES
  clock,
  facts,    \* what lookups give, for every name
  incoming  \* what a push has still to store

Init == clock = 0 /\ facts = {} /\ incoming = {}

(* push() is called, with facts of one name that have not expired. *)
Arrive ==
  /\ incoming = {}
  /\ \A f, g \in incoming' : f[1] = g[1]
  /\ \A f \in incoming' : f[3] > clock
  /\ UNCHANGED <<clock, facts>>

Store ==
  /\ facts' = facts \cup incoming
  /\ incoming' = {}
  /\ UNCHANGED clock

(* push() returns AllocationError. *)
Refuse ==
  /\ incoming' = {}
  /\ UNCHANGED <<clock, facts>>

Pass ==
  /\ clock' = clock + 1
  /\ facts' = {f \in facts : f[3] > clock'}
  /\ UNCHANGED incoming

(* The cache is destroyed; the next one is empty. *)
Discard ==
  /\ facts' = {}
  /\ UNCHANGED <<clock, incoming>>

Next == Arrive \/ Store \/ Refuse \/ Pass \/ Discard

Spec == Init /\ [][Next]_<<clock, facts, incoming>>
=============================================================================
