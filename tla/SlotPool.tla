------------------------------ MODULE SlotPool ------------------------------
(***************************************************************************)
(* What query admission promises, whatever implements it: a pool of query  *)
(* slots with one limit for the process (or cluster) and one per user.     *)
(*                                                                         *)
(* QueryAdmissionController (LocalAdmission) and                           *)
(* RedisQueryAdmissionController (RedisAdmission) are shown to implement   *)
(* it.                                                                     *)
(***************************************************************************)
EXTENDS Integers, FiniteSets

CONSTANTS
  Tasks,        \* the query() calls that ask for a slot
  UserOf,       \* [Tasks -> user]: whose slot a task asks for
  MaxGlobal,    \* agent.max_concurrent_queries
  MaxPerUser    \* agent.max_concurrent_queries_per_user

VARIABLE held   \* the tasks that own a slot

HeldBy(S, u) == {t \in S : UserOf[t] = u}

Init == held = {}

(* One task is given a slot; both limits have room for it. *)
Acquire(t) ==
  /\ t \notin held
  /\ Cardinality(held) < MaxGlobal
  /\ Cardinality(HeldBy(held, UserOf[t])) < MaxPerUser
  /\ held' = held \cup {t}

(* Slots are given back: by one task, or by all those of a process that    *)
(* exits or whose leases expire.                                           *)
GiveBack(S) == held' = held \ S

Next ==
  \/ \E t \in Tasks : Acquire(t)
  \/ \E S \in SUBSET held : GiveBack(S)

Spec == Init /\ [][Next]_held
=============================================================================
