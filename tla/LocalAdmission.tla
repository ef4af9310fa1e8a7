--------------------------- MODULE LocalAdmission ---------------------------
(***************************************************************************)
(* QueryAdmissionController of app/service/query_lifecycle.py: the         *)
(* in-process admission of queries, with an asyncio.Condition on which     *)
(* callers wait for a slot, a deadline for every waiter, graph tasks that  *)
(* are registered for shutdown, and begin_shutdown/reset.                  *)
(*                                                                         *)
(* The body of every "async with self._condition" runs without an await    *)
(* except Condition.wait, so it is one step; a waiter that is notified     *)
(* runs again only when it is scheduled, and other callers may run before. *)
(***************************************************************************)
EXTENDS Integers, FiniteSets

CONSTANTS
  Tasks,        \* the query() calls made while the process lives
  Users,
  UserOf,       \* [Tasks -> Users]
  Keys,         \* admission keys: the hash of a request id, or a local id
  MaxGlobal,    \* max_global
  MaxPerUser,   \* max_per_user
  NoKey         \* no key yet: the task has not called acquire

ASSUME TasksAssumption == IsFiniteSet(Tasks)
ASSUME UserOfAssumption == UserOf \in [Tasks -> Users]
ASSUME LimitsAssumption == MaxGlobal \in Nat /\ MaxPerUser \in Nat
ASSUME NoKeyAssumption == NoKey \notin Keys

VARIABLES
  pc,           \* where each query() call is
  key,          \* the key it asked with
  globalActive, \* self._global_active
  userActive,   \* self._user_active, absent users being 0
  activeKeys,   \* self._active_keys
  accepting,    \* self._accepting
  phase,        \* the process: serving, draining (begin_shutdown), exited
  clashed,      \* history: somebody was admitted with a key already active
  leaked        \* history: the calls that left query() without a release

vars == <<pc, key, globalActive, userActive, activeKeys, accepting, phase,
          clashed, leaked>>

(* "new" has not called acquire; "sleeping" is inside Condition.wait;       *)
(* "woken" was notified and not yet run; "admitted" owns a lease and has no *)
(* graph task; "running" has a registered graph task, "cancelling" one that *)
(* begin_shutdown has cancelled; "ended" has finished it and not released;  *)
(* "left" is past acquire/release, or was refused.                          *)
PCs == {"new", "sleeping", "woken", "admitted", "running", "cancelling",
        "ended", "left"}
Owning == {"admitted", "running", "cancelling", "ended"}

Holders == {t \in Tasks : pc[t] \in Owning}
Of(S, u) == {t \in S : UserOf[t] = u}
HoldersOf(u) == Of(Holders, u)

(* Who is counted: the owners, and the calls that are gone with their slot. *)
Charged == Holders \cup leaked

TypeOK ==
  /\ pc \in [Tasks -> PCs]
  /\ key \in [Tasks -> Keys \cup {NoKey}]
  /\ globalActive \in Nat
  /\ userActive \in [Users -> Nat]
  /\ activeKeys \subseteq Keys
  /\ accepting \in BOOLEAN
  /\ phase \in {"serving", "draining", "exited"}
  /\ clashed \in BOOLEAN
  /\ leaked \subseteq {t \in Tasks : pc[t] = "left"}
  /\ \A t \in Tasks : pc[t] \in Owning \cup {"sleeping", "woken"} =>
                        key[t] \in Keys

(* The constructor, and reset() when the lifespan starts: nothing is held. *)
Init ==
  /\ pc = [t \in Tasks |-> "new"]
  /\ key = [t \in Tasks |-> NoKey]
  /\ globalActive = 0
  /\ userActive = [u \in Users |-> 0]
  /\ activeKeys = {}
  /\ accepting = TRUE
  /\ phase = "serving"
  /\ clashed = FALSE
  /\ leaked = {}

-----------------------------------------------------------------------------
(* Mutant: both limits are off by one. *)
CanAdmitOffByOne(t) ==
  /\ globalActive <= MaxGlobal
  /\ userActive[UserOf[t]] <= MaxPerUser

(* The test at the head of the wait loop. *)
CanAdmit(t) ==
  /\ globalActive < MaxGlobal
  /\ userActive[UserOf[t]] < MaxPerUser

(* Mutant: notify() instead of notify_all(). *)
NotifyOne(p) ==
  IF \E s \in Tasks : p[s] = "sleeping"
  THEN [p EXCEPT ![CHOOSE s \in Tasks : p[s] = "sleeping"] = "woken"]
  ELSE p

(* Condition.notify_all: every sleeper is made runnable. *)
NotifyAll(p) == [s \in Tasks |-> IF p[s] = "sleeping" THEN "woken" ELSE p[s]]

(* The body of the "if" at the head of the wait loop. *)
Admit(t, k) ==
  /\ CanAdmit(t)
  /\ globalActive' = globalActive + 1
  /\ userActive' = [userActive EXCEPT ![UserOf[t]] = @ + 1]
  /\ activeKeys' = activeKeys \cup {k}
  /\ clashed' = (clashed \/ k \in activeKeys)
  /\ pc' = [pc EXCEPT ![t] = "admitted"]
  /\ key' = [key EXCEPT ![t] = k]

(* acquire, up to the loop: SERVICE_SHUTTING_DOWN or DUPLICATE_REQUEST. The *)
(* test of the active keys is made here and nowhere else.                   *)
Refuse(t, k) ==
  /\ pc[t] = "new"
  /\ ~accepting \/ k \in activeKeys
  /\ pc' = [pc EXCEPT ![t] = "left"]
  /\ UNCHANGED <<key, globalActive, userActive, activeKeys, accepting, phase,
                 clashed, leaked>>

(* The two refusals are passed. *)
MayEnter(t, k) == pc[t] = "new" /\ accepting /\ k \notin activeKeys

(* acquire with room at once. *)
AcquireNow(t, k) ==
  /\ MayEnter(t, k)
  /\ Admit(t, k)
  /\ UNCHANGED <<accepting, phase, leaked>>

(* Mutant: the waiter's key is not kept across the wait. *)
WaitWithoutKey(t, k) ==
  /\ MayEnter(t, k)
  /\ ~CanAdmit(t)
  /\ pc' = [pc EXCEPT ![t] = "sleeping"]
  /\ UNCHANGED <<key, globalActive, userActive, activeKeys, accepting, phase,
                 clashed, leaked>>

(* acquire without room: the first Condition.wait. *)
WaitForSlot(t, k) ==
  /\ MayEnter(t, k)
  /\ ~CanAdmit(t)
  /\ pc' = [pc EXCEPT ![t] = "sleeping"]
  /\ key' = [key EXCEPT ![t] = k]
  /\ UNCHANGED <<globalActive, userActive, activeKeys, accepting, phase,
                 clashed, leaked>>

(* Mutant: "if" instead of "while": no second test after the wait. *)
WakeUnchecked(t) ==
  /\ pc[t] = "woken"
  /\ globalActive' = globalActive + 1
  /\ userActive' = [userActive EXCEPT ![UserOf[t]] = @ + 1]
  /\ activeKeys' = activeKeys \cup {key[t]}
  /\ clashed' = (clashed \/ key[t] \in activeKeys)
  /\ pc' = [pc EXCEPT ![t] = "admitted"]
  /\ UNCHANGED <<key, accepting, phase, leaked>>

(* A notified waiter runs the loop again: neither self._accepting nor the   *)
(* active keys are looked at again.                                         *)
WakeAdmit(t) ==
  /\ pc[t] = "woken"
  /\ Admit(t, key[t])
  /\ UNCHANGED <<accepting, phase, leaked>>

WakeSleep(t) ==
  /\ pc[t] = "woken"
  /\ ~CanAdmit(t)
  /\ pc' = [pc EXCEPT ![t] = "sleeping"]
  /\ UNCHANGED <<key, globalActive, userActive, activeKeys, accepting, phase,
                 clashed, leaked>>

(* The deadline passes (QUERY_ADMISSION_TIMEOUT and its two limit codes) or *)
(* the waiting task is cancelled: nothing was counted, nothing is undone.   *)
GiveUp(t) ==
  /\ pc[t] \in {"sleeping", "woken"}
  /\ pc' = [pc EXCEPT ![t] = "left"]
  /\ UNCHANGED <<key, globalActive, userActive, activeKeys, accepting, phase,
                 clashed, leaked>>

(* create_task(_produce_graph_chunks) and register_task. *)
StartGraph(t) ==
  /\ pc[t] = "admitted"
  /\ pc' = [pc EXCEPT ![t] = "running"]
  /\ UNCHANGED <<key, globalActive, userActive, activeKeys, accepting, phase,
                 clashed, leaked>>

(* The graph task ends; its done callback discards it from self._tasks. *)
GraphDone(t) ==
  /\ pc[t] \in {"running", "cancelling"}
  /\ pc' = [pc EXCEPT ![t] = "ended"]
  /\ UNCHANGED <<key, globalActive, userActive, activeKeys, accepting, phase,
                 clashed, leaked>>

(* max(0, n - 1) *)
OneLess(n) == IF n > 0 THEN n - 1 ELSE 0

(* Mutant: the user's count is not given back. *)
ReleaseGlobalOnly(t) ==
  /\ pc[t] \in {"admitted", "ended"}
  /\ key[t] \in activeKeys
  /\ activeKeys' = activeKeys \ {key[t]}
  /\ globalActive' = OneLess(globalActive)
  /\ pc' = NotifyAll([pc EXCEPT ![t] = "left"])
  /\ UNCHANGED <<userActive, key, accepting, phase, clashed, leaked>>

(* Mutant: the slot is given back and nobody is told. *)
ReleaseUnnoticed(t) ==
  /\ pc[t] \in {"admitted", "ended"}
  /\ IF key[t] \in activeKeys
     THEN /\ activeKeys' = activeKeys \ {key[t]}
          /\ globalActive' = OneLess(globalActive)
          /\ userActive' = [userActive EXCEPT ![UserOf[t]] = OneLess(@)]
     ELSE UNCHANGED <<activeKeys, globalActive, userActive>>
  /\ pc' = [pc EXCEPT ![t] = "left"]
  /\ UNCHANGED <<key, accepting, phase, clashed, leaked>>

(* release: a no-op when the lease's key is not active any more. *)
Release(t) ==
  /\ pc[t] \in {"admitted", "ended"}
  /\ IF key[t] \in activeKeys
     THEN /\ activeKeys' = activeKeys \ {key[t]}
          /\ globalActive' = OneLess(globalActive)
          /\ userActive' = [userActive EXCEPT ![UserOf[t]] = OneLess(@)]
          /\ pc' = NotifyAll([pc EXCEPT ![t] = "left"])
     ELSE /\ pc' = [pc EXCEPT ![t] = "left"]
          /\ UNCHANGED <<activeKeys, globalActive, userActive>>
  /\ UNCHANGED <<key, accepting, phase, clashed, leaked>>

(* query() is left before the try whose finally clause releases: a hit in   *)
(* the cache (the semantic one needs no Redis), an exception on the way to  *)
(* the graph, or a client that closes the stream at one of the yields in    *)
(* between. The controller is not told.                                     *)
ReturnsUnreleased(t) ==
  /\ pc[t] = "admitted"
  /\ pc' = [pc EXCEPT ![t] = "left"]
  /\ leaked' = leaked \cup {t}
  /\ UNCHANGED <<key, globalActive, userActive, activeKeys, accepting, phase,
                 clashed>>

(* begin_shutdown up to its wait: stop accepting, wake the waiters, cancel  *)
(* the graph tasks registered now.                                          *)
BeginShutdown ==
  /\ phase = "serving"
  /\ phase' = "draining"
  /\ accepting' = FALSE
  /\ pc' = [t \in Tasks |-> IF pc[t] = "running" THEN "cancelling"
                            ELSE NotifyAll(pc)[t]]
  /\ UNCHANGED <<key, globalActive, userActive, activeKeys, clashed, leaked>>

(* The wait of begin_shutdown is over (every cancelled task is done, or the *)
(* timeout has passed), the cleanup steps run, the last of them reset();    *)
(* the process ends and with it every call still in it.                     *)
ResetAndExit ==
  /\ phase = "draining"
  /\ phase' = "exited"
  /\ accepting' = TRUE
  /\ globalActive' = 0
  /\ userActive' = [u \in Users |-> 0]
  /\ activeKeys' = {}
  /\ pc' = [t \in Tasks |-> "left"]
  /\ leaked' = {}
  /\ UNCHANGED <<key, clashed>>

Enter(t) == \E k \in Keys : Refuse(t, k) \/ AcquireNow(t, k) \/ WaitForSlot(t, k)
Wake(t) == WakeAdmit(t) \/ WakeSleep(t)

Next ==
  \/ \E t \in Tasks : \/ Enter(t) \/ Wake(t) \/ GiveUp(t)
                      \/ StartGraph(t) \/ GraphDone(t)
                      \/ Release(t) \/ ReturnsUnreleased(t)
  \/ BeginShutdown
  \/ ResetAndExit

(* A runnable coroutine is eventually run; the graph of a query ends        *)
(* because query_total_timeout_seconds bounds it; the owner of a lease      *)
(* leaves query(), one way or the other. Nobody has to call, and no         *)
(* waiter's deadline is counted on.                                         *)
Fairness ==
  \A t \in Tasks :
    /\ WF_vars(Wake(t)) /\ WF_vars(GraphDone(t))
    /\ WF_vars(StartGraph(t) \/ Release(t) \/ ReturnsUnreleased(t))

Spec == Init /\ [][Next]_vars
FairSpec == Spec /\ Fairness

-----------------------------------------------------------------------------
(* However keys collide, wake-ups race and shutdown interferes, no more     *)
(* than max_global queries, and no more than max_per_user of one user, own  *)
(* a lease at once.                                                         *)
LimitRespected ==
  /\ Cardinality(Holders) <= MaxGlobal
  /\ \A u \in Users : Cardinality(HoldersOf(u)) <= MaxPerUser

(* As long as nobody is admitted with a key that is active, the counters,   *)
(* the per-user counts and the active keys say exactly who holds a lease or *)
(* left with one: no slot is lost in any other way, none is given twice,    *)
(* and a call that left with its slot keeps its key refused. (Two waiters   *)
(* with one key are both admitted, since the key is tested only before the  *)
(* wait; the second release is then a no-op and its slot is never counted   *)
(* down.)                                                                   *)
CountersExact ==
  ~clashed =>
    /\ globalActive = Cardinality(Charged)
    /\ \A u \in Users : userActive[u] = Cardinality(Of(Charged, u))
    /\ activeKeys = {key[t] : t \in Charged}

(* Once every call has left query(), no slot is taken: what                 *)
(* test_runtime_acceptance.py asserts after each of its queries. The calls  *)
(* that return before the try refute it.                                    *)
SlotsGivenBack ==
  ~clashed /\ (\A t \in Tasks : pc[t] \in {"new", "left"}) => globalActive = 0

(* A waiter sleeps only while there is no room for it: no release or        *)
(* shutdown that makes room leaves it asleep, whoever else it wakes.        *)
NoLostWakeup ==
  \A t \in Tasks : pc[t] = "sleeping" => ~CanAdmit(t)

(* The slots that are given back reach whoever waits for them: while no two *)
(* calls clash and the slots that left with a call leave some for everybody *)
(* and some for its user, a waiter gets out of the wait by the releases     *)
(* alone, without its deadline, however often newcomers overtake it and     *)
(* send it back to sleep.                                                   *)
SlotsReachWaiters ==
  \A t \in Tasks :
    [](/\ ~clashed
       /\ Cardinality(leaked) < MaxGlobal
       /\ Cardinality(Of(leaked, UserOf[t])) < MaxPerUser)
      => (pc[t] \in {"sleeping", "woken"} ~> pc[t] \notin {"sleeping", "woken"})

(* The controller implements the slot pool. *)
Pool == INSTANCE SlotPool WITH held <- Holders
PoolSpec == Pool!Spec
=============================================================================
