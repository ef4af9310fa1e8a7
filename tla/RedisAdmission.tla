--------------------------- MODULE RedisAdmission ---------------------------
(***************************************************************************)
(* RedisQueryAdmissionController and RedisRequestDedupRegistry of          *)
(* app/service/query_lifecycle.py, as QueryService.query uses them: the    *)
(* request id is registered, a slot is polled for, held while the query    *)
(* runs, and given back; several workers share one Redis, and time passes. *)
(*                                                                         *)
(* A Lua script is one step. The clocks of the workers and of Redis are    *)
(* taken to agree, and a score computed before a script is sent to be the  *)
(* one it would have when the script runs. A time to live is modelled by   *)
(* what is left of it, in ticks.                                           *)
(***************************************************************************)
EXTENDS Integers, FiniteSets

CONSTANTS
  Workers,      \* the processes
  Tasks,        \* the query() calls
  Users,
  Requests,     \* request ids: each names a dedup key and a lease member
  WorkerOf,     \* [Tasks -> Workers]
  UserOf,       \* [Tasks -> Users]
  RequestOf,    \* [Tasks -> Requests]
  MaxGlobal,    \* max_global
  MaxPerUser,   \* max_per_user
  LeaseTtl,     \* lease_ttl_seconds, in ticks
  DedupTtl,     \* ttl_seconds of the registry, in ticks
  Stopping,     \* bound: the workers that may be shut down
  Faults        \* bound: {"crash"}: a worker dies; {"redis"}: a call raises

ASSUME TasksAssumption ==
  /\ IsFiniteSet(Tasks) /\ IsFiniteSet(Requests)
  /\ WorkerOf \in [Tasks -> Workers]
  /\ UserOf \in [Tasks -> Users]
  /\ RequestOf \in [Tasks -> Requests]
ASSUME LimitsAssumption == MaxGlobal \in Nat /\ MaxPerUser \in Nat
ASSUME TtlAssumption == LeaseTtl \in Nat \ {0} /\ DedupTtl \in Nat \ {0}
ASSUME FaultsAssumption ==
  Stopping \subseteq Workers /\ Faults \subseteq {"crash", "redis"}

VARIABLES
  pc,           \* where each query() call is
  owns,         \* the calls that hold an AdmissionLease they will release
  accepting,    \* self._accepting of each worker
  all,          \* the sorted set admission:global: what is left of each
                \* member's score, Absent when it is not there
  ofUser,       \* the sorted sets admission:user:*, likewise
  leaseKey,     \* the keys admission:lease:*: what is left of them, 0: none
  dedup,        \* the keys dedup:*: what is left of them, 0: none
  overran       \* history: a query outlived its own lease

vars == <<pc, owns, accepting, all, ofUser, leaseKey, dedup, overran>>

Absent == -1
Forever == -1     \* a key that was set without a time to live

(* "new" has not registered; "polling" is in acquire's loop; "holding" runs *)
(* the query; "ending" is about to test that the dedup key exists,          *)
(* "marking" about to set it; "leaving" is about to release what it owns.   *)
PCs == {"new", "polling", "holding", "ending", "marking", "leaving", "left"}
Owning == {"holding", "ending", "marking", "leaving"}

Holders == {t \in Tasks : owns[t]}
HoldersOf(u) == {t \in Holders : UserOf[t] = u}

Scores == {Absent} \cup 0..LeaseTtl

TypeOK ==
  /\ pc \in [Tasks -> PCs]
  /\ owns \in [Tasks -> BOOLEAN]
  /\ \A t \in Holders : pc[t] \in Owning
  /\ accepting \in [Workers -> BOOLEAN]
  /\ all \in [Requests -> Scores]
  /\ ofUser \in [Users -> [Requests -> Scores]]
  /\ leaseKey \in [Requests -> 0..LeaseTtl]
  /\ dedup \in [Requests -> {Forever} \cup 0..DedupTtl]
  /\ overran \in BOOLEAN

Init ==
  /\ pc = [t \in Tasks |-> "new"]
  /\ owns = [t \in Tasks |-> FALSE]
  /\ accepting = [w \in Workers |-> TRUE]
  /\ all = [m \in Requests |-> Absent]
  /\ ofUser = [u \in Users |-> [m \in Requests |-> Absent]]
  /\ leaseKey = [m \in Requests |-> 0]
  /\ dedup = [m \in Requests |-> 0]
  /\ overran = FALSE

slots == <<all, ofUser, leaseKey>>

Goto(t, l) == pc' = [pc EXCEPT ![t] = l]

-----------------------------------------------------------------------------
(* RedisRequestDedupRegistry *)

(* DEDUP_REGISTER_LUA creates the key and the call goes on at l. *)
RegisterAs(t, l) ==
  /\ pc[t] = "new"
  /\ dedup[RequestOf[t]] = 0
  /\ dedup' = [dedup EXCEPT ![RequestOf[t]] = DedupTtl]
  /\ Goto(t, l)
  /\ UNCHANGED <<owns, accepting, slots, overran>>

(* register returns, and acquire looks at self._accepting before anything   *)
(* else runs in this worker: SERVICE_SHUTTING_DOWN, or the loop.            *)
Register(t) ==
  RegisterAs(t, IF accepting[WorkerOf[t]] THEN "polling" ELSE "ending")

(* DUPLICATE_REQUEST: there is no token, and the key is left alone. *)
RegisterDuplicate(t) ==
  /\ pc[t] = "new"
  /\ dedup[RequestOf[t]] # 0
  /\ Goto(t, "left")
  /\ UNCHANGED <<owns, accepting, slots, dedup, overran>>

(* After complete: the lease, if there is one, is released. *)
AfterComplete(t) == IF owns[t] THEN "leaving" ELSE "left"

(* complete, the first call. *)
CompleteExists(t) ==
  /\ pc[t] = "ending"
  /\ Goto(t, IF dedup[RequestOf[t]] # 0 THEN "marking" ELSE AfterComplete(t))
  /\ UNCHANGED <<owns, accepting, slots, dedup, overran>>

(* complete, the second call: SET ... KEEPTTL keeps the time to live of a   *)
(* key that is there, and makes one without any when it has expired.        *)
CompleteSet(t) ==
  /\ pc[t] = "marking"
  /\ dedup' = [dedup EXCEPT ![RequestOf[t]] = IF @ = 0 THEN Forever ELSE @]
  /\ Goto(t, AfterComplete(t))
  /\ UNCHANGED <<owns, accepting, slots, overran>>

-----------------------------------------------------------------------------
(* RedisQueryAdmissionController *)

(* Mutant: members are pruned by expires_at_ms instead of now_ms. *)
PrunedByExpiry(z) ==
  [m \in Requests |-> IF z[m] <= LeaseTtl THEN Absent ELSE z[m]]

(* ZREMRANGEBYSCORE -inf now: a member whose score is not in the future. *)
Pruned(z) == [m \in Requests |-> IF z[m] <= 0 THEN Absent ELSE z[m]]

(* ZCARD *)
ZCard(z) == Cardinality({m \in Requests : z[m] # Absent})

(* Mutant: the limits are off by one. *)
HasRoomOffByOne(t) ==
  /\ ZCard(Pruned(ofUser[UserOf[t]])) <= MaxPerUser
  /\ ZCard(Pruned(all)) <= MaxGlobal

(* The two limits, tested on the pruned sets. *)
HasRoom(t) ==
  /\ ZCard(Pruned(ofUser[UserOf[t]])) < MaxPerUser
  /\ ZCard(Pruned(all)) < MaxGlobal

(* Mutant: the lease key is not tested. *)
NeverDuplicate(t) == FALSE

(* EXISTS of the lease key. *)
Duplicate(t) == leaseKey[RequestOf[t]] > 0

(* ADMISSION_ACQUIRE_LUA answers "ok". *)
AcquireLua(t) ==
  /\ ~Duplicate(t)
  /\ HasRoom(t)
  /\ all' = [Pruned(all) EXCEPT ![RequestOf[t]] = LeaseTtl]
  /\ ofUser' = [ofUser EXCEPT ![UserOf[t]] =
                  [Pruned(@) EXCEPT ![RequestOf[t]] = LeaseTtl]]
  /\ leaseKey' = [leaseKey EXCEPT ![RequestOf[t]] = LeaseTtl]

Acquire(t) ==
  /\ pc[t] = "polling"
  /\ AcquireLua(t)
  /\ owns' = [owns EXCEPT ![t] = TRUE]
  /\ Goto(t, "holding")
  /\ UNCHANGED <<accepting, dedup, overran>>

(* ADMISSION_ACQUIRE_LUA refuses, having pruned. A duplicate, and a limit   *)
(* once the deadline has passed, are raised and query() completes the token *)
(* as "failed"; before the deadline a limit is polled again, whatever       *)
(* became of self._accepting.                                               *)
PollRefused(t) ==
  /\ pc[t] = "polling"
  /\ Duplicate(t) \/ ~HasRoom(t)
  /\ all' = Pruned(all)
  /\ ofUser' = [ofUser EXCEPT ![UserOf[t]] = Pruned(@)]
  /\ \/ Goto(t, "ending")
     \/ ~Duplicate(t) /\ Goto(t, "polling")
  /\ UNCHANGED <<owns, accepting, leaseKey, dedup, overran>>

(* The query ends (answered, failed, timed out, cancelled, the client gone, *)
(* the prompt rejected): the token is completed and then the lease          *)
(* released. When the generator is closed at a yield, or completing raises, *)
(* the finally clause alone runs.                                           *)
QueryEnds(t) ==
  /\ pc[t] = "holding"
  /\ Goto(t, "ending") \/ Goto(t, "leaving")
  /\ UNCHANGED <<owns, accepting, slots, dedup, overran>>

(* The answer is in the cache, at once or after waiting for its filler: the *)
(* token is completed and query() returns before the try whose finally      *)
(* clause releases the lease. An exception before that try leaves at once.  *)
ReturnsUnreleased(t) ==
  /\ pc[t] = "holding"
  /\ Goto(t, "ending") \/ Goto(t, "left")
  /\ owns' = [owns EXCEPT ![t] = FALSE]
  /\ UNCHANGED <<accepting, slots, dedup, overran>>

(* Mutant: the user's set is forgotten. *)
ReleaseLuaKeepsUser(t) ==
  /\ all' = [all EXCEPT ![RequestOf[t]] = Absent]
  /\ leaseKey' = [leaseKey EXCEPT ![RequestOf[t]] = 0]
  /\ UNCHANGED ofUser

(* ADMISSION_RELEASE_LUA: whoever owns the member now. *)
ReleaseLua(t) ==
  /\ all' = [all EXCEPT ![RequestOf[t]] = Absent]
  /\ ofUser' = [ofUser EXCEPT ![UserOf[t]][RequestOf[t]] = Absent]
  /\ leaseKey' = [leaseKey EXCEPT ![RequestOf[t]] = 0]

(* Mutant: the call keeps its lease, and could release it again. *)
LeaveOwning(t) ==
  /\ pc[t] = "leaving"
  /\ ReleaseLua(t)
  /\ Goto(t, "left")
  /\ UNCHANGED <<owns, accepting, dedup, overran>>

(* release *)
Leave(t) ==
  /\ pc[t] = "leaving"
  /\ ReleaseLua(t)
  /\ owns' = [owns EXCEPT ![t] = FALSE]
  /\ Goto(t, "left")
  /\ UNCHANGED <<accepting, dedup, overran>>

(* A call to Redis raises something that is not an AppException, which      *)
(* nothing around register and acquire handles; the script may have run.    *)
(* After a release that has raised nobody tries again.                      *)
CallFails(t) ==
  /\ "redis" \in Faults
  /\ pc[t] \in {"polling", "leaving"}
  /\ owns' = [owns EXCEPT ![t] = FALSE]
  /\ Goto(t, "left")
  /\ UNCHANGED <<accepting, slots, dedup, overran>>

RegisterLost(t) == "redis" \in Faults /\ RegisterAs(t, "left")

AcquireLost(t) ==
  /\ "redis" \in Faults
  /\ pc[t] = "polling"
  /\ AcquireLua(t)
  /\ Goto(t, "left")
  /\ UNCHANGED <<owns, accepting, dedup, overran>>

(* begin_shutdown: stop accepting, and cancel the graph tasks, which ends   *)
(* their queries (QueryEnds).                                               *)
BeginShutdown(w) ==
  /\ w \in Stopping
  /\ accepting[w]
  /\ accepting' = [accepting EXCEPT ![w] = FALSE]
  /\ UNCHANGED <<pc, owns, slots, dedup, overran>>

(* The process dies, or exits at the end of its shutdown, and is started    *)
(* again: every call in it is lost, and whatever it had in Redis stays.     *)
Restart(w) ==
  /\ "crash" \in Faults \/ ~accepting[w]
  /\ pc' = [t \in Tasks |-> IF WorkerOf[t] = w /\ pc[t] # "new" THEN "left"
                            ELSE pc[t]]
  /\ owns' = [t \in Tasks |-> owns[t] /\ WorkerOf[t] # w]
  /\ accepting' = [accepting EXCEPT ![w] = TRUE]
  /\ UNCHANGED <<slots, dedup, overran>>

Less(n) == IF n > 0 THEN n - 1 ELSE n

(* Time passes. Redis drops a key whose time to live is over; a member of a *)
(* sorted set stays until a script prunes it.                               *)
Tick ==
  /\ all' = [m \in Requests |-> Less(all[m])]
  /\ ofUser' = [u \in Users |-> [m \in Requests |-> Less(ofUser[u][m])]]
  /\ leaseKey' = [m \in Requests |-> Less(leaseKey[m])]
  /\ dedup' = [m \in Requests |-> Less(dedup[m])]
  /\ overran' = (overran \/ \E t \in Holders : all[RequestOf[t]] <= 1)
  /\ UNCHANGED <<pc, owns, accepting>>

Next ==
  \/ \E t \in Tasks :
       \/ Register(t) \/ RegisterDuplicate(t)
       \/ Acquire(t) \/ PollRefused(t)
       \/ QueryEnds(t) \/ ReturnsUnreleased(t)
       \/ CompleteExists(t) \/ CompleteSet(t) \/ Leave(t)
       \/ CallFails(t) \/ RegisterLost(t) \/ AcquireLost(t)
  \/ \E w \in Workers : BeginShutdown(w) \/ Restart(w)
  \/ Tick

Spec == Init /\ [][Next]_vars

-----------------------------------------------------------------------------
(* As long as no query outlives its lease (query_total_timeout_seconds is   *)
(* shorter, by admission_timeout_seconds) no more than max_global queries,  *)
(* and no more than max_per_user of one user, hold a slot at once in all    *)
(* the workers together, whatever crashed, was lost or retried before; and  *)
(* Redis never counts more than the limit, slots without an owner included. *)
LimitRespected ==
  /\ ~overran => /\ Cardinality(Holders) <= MaxGlobal
                 /\ \A u \in Users : Cardinality(HoldersOf(u)) <= MaxPerUser
  /\ ZCard(Pruned(all)) <= MaxGlobal

(* Nothing is claimed once a query has outlived its lease: a run need not   *)
(* go on from there.                                                        *)
NoOverrun == ~overran

(* A request id runs once at a time in all the workers together, although   *)
(* its dedup key expires (30 s) while its query may still run (60 s) and a  *)
(* retry then registers it again.                                           *)
OneQueryPerRequest ==
  ~overran => \A s, t \in Holders : RequestOf[s] = RequestOf[t] => s = t

(* The three places that say who holds a slot agree, and whoever holds one  *)
(* is in all of them: no release of another call, crash or lost reply ever  *)
(* takes the slot of a running query.                                       *)
SlotsAgree ==
  ~overran =>
    /\ \A t \in Holders : all[RequestOf[t]] > 0
    /\ \A t \in Holders : ofUser[UserOf[t]][RequestOf[t]] > 0
    /\ \A m \in Requests :
         /\ all[m] > 0 <=> leaseKey[m] > 0
         /\ all[m] > 0 <=> \E u \in Users : ofUser[u][m] > 0

(* The controller implements the slot pool, until a query outlives its      *)
(* lease.                                                                   *)
Pool == INSTANCE SlotPool WITH held <- IF overran THEN {} ELSE Holders
PoolSpec == Pool!Spec

(* What a test says of the registry: every dedup key it leaves in Redis has *)
(* a time to live, so that the request id can be used again.                *)
DedupKeysExpire == \A m \in Requests : dedup[m] # Forever
=============================================================================
