----------------------------- MODULE FillLease ------------------------------
(***************************************************************************)
(* What the fill lease of the query cache promises, wherever it is kept:   *)
(* one request at a time may take an identity to fill it, for LeaseTtl     *)
(* ticks and no longer, and only its own end can make it less. QueryCache, *)
(* where the lease is a key of Redis that another request may hold by the  *)
(* time it is deleted, is shown to implement it.                           *)
(***************************************************************************)
EXTENDS Integers

CONSTANTS
  Clients,   \* who asks, one request at a time each
  Ids,       \* the identities that can be filled
  LeaseTtl   \* cache.lease_ttl_seconds, in ticks

VARIABLE held   \* the leases: by whom, of which identity, for how long still

Init == held = {}

(* The identity is free, and the request asks for its first lease.          *)
Take(c, i) ==
  /\ \A h \in held : h.by # c /\ h.of # i
  /\ held' = held \cup {[by |-> c, of |-> i, left |-> LeaseTtl]}

(* A request ends; only what it held itself is free again.                  *)
GiveUp(c) == held' = {h \in held : h.by # c}

(* Time passes for all leases at once.                                      *)
Tick == held' = {[h EXCEPT !.left = @ - 1] : h \in {h \in held : h.left > 1}}

Next ==
  \/ \E c \in Clients : GiveUp(c) \/ \E i \in Ids : Take(c, i)
  \/ Tick

Spec == Init /\ [][Next]_held
=============================================================================
