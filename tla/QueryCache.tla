----------------------------- MODULE QueryCache -----------------------------
(***************************************************************************)
(* The query cache (app/cache/) as QueryService.query uses it: look up the *)
(* exact entry in Redis, then the semantic one in Qdrant; on a miss take   *)
(* the fill lease or wait for its holder; run the agent; write what the    *)
(* policy lets through; give the lease back. Every await is a step, so     *)
(* requests, expiry and invalidation come in between.                      *)
(*                                                                         *)
(* A time to live is modelled by what is left of it, in ticks. Of a final  *)
(* payload the model keeps which kinds of keys are in it: "safe" ones      *)
(* (SAFE_PAYLOAD_KEYS), "unlisted" ones and "sensitive" ones.              *)
(***************************************************************************)
EXTENDS Integers, FiniteSets

CONSTANTS
  Clients,       \* who sends requests, one at a time each
  Ids,           \* cache identities: a normalized query in a scope
  AsksOf,        \* [Clients -> SUBSET Ids]: what each client may ask
  ScopeOf,       \* [Ids -> scope_hash]
  MeaningOf,     \* [Ids -> what SemanticMatchGuard compares]
  Near,          \* pairs of Ids whose similarity reaches the threshold
  ExactTtl, SemanticTtl, LeaseTtl, Patience, \* cache.*_seconds, in ticks
  MaxRequests,   \* bound: requests sent
  Faults         \* bound: {"break", "invalidate"}

ASSUME IdsAssumption ==
  /\ Ids # {}
  /\ AsksOf \in [Clients -> SUBSET Ids]
  /\ Near \subseteq Ids \X Ids
ASSUME TtlAssumption ==
  /\ ExactTtl \in Nat \ {0} /\ SemanticTtl \in Nat \ {0}
  /\ LeaseTtl \in Nat \ {0} /\ Patience \in Nat
ASSUME BoundsAssumption ==
  MaxRequests \in Nat /\ Faults \subseteq {"break", "invalidate"}

VARIABLES
  job,       \* the request of each client, see Jobs
  exact,     \* the keys cache:exact:*
  semantic,  \* the points of the semantic collection
  lease,     \* the keys cache:lease:*: who holds it and what is left of it
  asked      \* requests sent so far

vars == <<job, exact, semantic, lease, asked>>

Nothing == [nothing |-> TRUE]
Forever == -1      \* a key that was set without a time to live
KeyKinds == {"safe", "unlisted", "sensitive"}

(* A cached answer: the identity it was computed for, whether its execution *)
(* had been resumed, its keys, what is left until its expires_at, and how   *)
(* long ago it was really computed.                                         *)
Payloads == [src: Ids, resumed: BOOLEAN, keys: SUBSET KeyKinds]
Entries == [data: Payloads, exp: Nat, age: Nat]

(* A key of the exact cache, a point of the semantic one being an entry, and *)
(* a key of the lease, with what is left of the key's time to live.          *)
Keys == [entry: Entries, ttl: 1..ExactTtl \cup {Forever}]
Leases == [owner: Clients, left: 1..LeaseTtl]

(* Where a request is: sending GET, DEL of a bad entry, SET of a counted    *)
(* hit, the vector search, sending the cached answer, SET NX of the lease,  *)
(* waiting for a fill, between the lease and the graph, running the graph,  *)
(* the two writes, the finally clause.                                      *)
PCs == {"idle", "exact", "purge", "touch", "semantic", "answer", "lease",
        "wait", "resume", "run", "save", "index", "release"}

(* "holds": it believes to hold the lease, and "left" is what remains of    *)
(* the time it took it for; "seen" the entry it read and "toWrite" what it *)
(* will cache; "served" is what it was answered from the cache, with that   *)
(* cache's time to live.                                                    *)
Jobs == [pc: PCs, id: Ids, waiting: BOOLEAN, patience: 0..Patience,
         holds: BOOLEAN, left: 0..LeaseTtl,
         seen: Entries \cup {Nothing}, toWrite: Payloads \cup {Nothing},
         served: [entry: Entries, ttl: Nat] \cup {Nothing}]

(* Types, and what the stores may hold in any order of events: an entry is  *)
(* filed under its own identity.                                            *)
TypeOK ==
  /\ job \in [Clients -> Jobs]
  /\ exact \in [Ids -> Keys \cup {Nothing}]
  /\ semantic \in [Ids -> Entries \cup {Nothing}]
  /\ lease \in [Ids -> Leases \cup {Nothing}]
  /\ \A i \in Ids :
       /\ exact[i] # Nothing => exact[i].entry.data.src = i
       /\ semantic[i] # Nothing => semantic[i].data.src = i
  /\ asked \in 0..MaxRequests

NoJob == [pc |-> "idle", id |-> CHOOSE i \in Ids : TRUE,
          waiting |-> FALSE, patience |-> 0, holds |-> FALSE, left |-> 0,
          seen |-> Nothing, toWrite |-> Nothing, served |-> Nothing]

Init ==
  /\ job = [c \in Clients |-> NoJob]
  /\ exact = [i \in Ids |-> Nothing]
  /\ semantic = [i \in Ids |-> Nothing]
  /\ lease = [i \in Ids |-> Nothing]
  /\ asked = 0

At(c, pc) == job[c].pc = pc
Goto(c, pc) == job' = [job EXCEPT ![c].pc = pc]

-----------------------------------------------------------------------------
(* The lookup                                                               *)

(* A request reaches the cache.                                             *)
Start(c, i) ==
  /\ At(c, "idle") /\ asked < MaxRequests
  /\ asked' = asked + 1
  /\ job' = [job EXCEPT ![c] = [NoJob EXCEPT !.pc = "exact", !.id = i]]
  /\ UNCHANGED <<exact, semantic, lease>>

(* Mutant: Redis is trusted to expire the key.                              *)
ValidWhileStored(entry, i) == entry.data.src = i

(* _validate_entry                                                          *)
Valid(entry, i) == entry.data.src = i /\ entry.exp > 0

(* ExactCache.load up to its second await                                   *)
ReadExact(c) ==
  LET found == exact[job[c].id] IN
  /\ At(c, "exact")
  /\ IF found = Nothing
     THEN Goto(c, "semantic")
     ELSE IF Valid(found.entry, job[c].id)
     THEN job' = [job EXCEPT ![c].pc = "touch", ![c].seen = found.entry,
                             ![c].served = [entry |-> found.entry,
                                            ttl |-> ExactTtl]]
     ELSE Goto(c, "purge")
  /\ UNCHANGED <<exact, semantic, lease, asked>>

(* GET raises, which is a miss.                                             *)
ReadFails(c) ==
  /\ At(c, "exact") /\ "break" \in Faults
  /\ Goto(c, "semantic")
  /\ UNCHANGED <<exact, semantic, lease, asked>>

(* DEL of an entry that is not valid; that it raises is suppressed.         *)
Purge(c) ==
  /\ At(c, "purge")
  /\ \/ exact' = [exact EXCEPT ![job[c].id] = Nothing]
     \/ "break" \in Faults /\ UNCHANGED exact
  /\ Goto(c, "semantic")
  /\ UNCHANGED <<semantic, lease, asked>>

(* A hit ends the request, unless wait_for_fill made the lookup: that looks *)
(* for a "hit" the outcome does not have, and goes on waiting.              *)
AfterHit(j) ==
  IF j.waiting THEN [j EXCEPT !.pc = "wait", !.seen = Nothing,
                              !.served = Nothing]
  ELSE [j EXCEPT !.pc = "answer", !.seen = Nothing]

AfterMiss(j) == [j EXCEPT !.pc = IF j.waiting THEN "wait" ELSE "lease"]

(* SET KEEPTTL counts the hit: it writes what was read, with the time to    *)
(* live of whatever the key holds by now.                                   *)
Touch(c) ==
  LET i == job[c].id IN
  /\ At(c, "touch")
  /\ exact' = [exact EXCEPT ![i] =
       [entry |-> job[c].seen,
        ttl |-> IF exact[i] = Nothing THEN Forever ELSE exact[i].ttl]]
  /\ job' = [job EXCEPT ![c] = AfterHit(job[c])]
  /\ UNCHANGED <<semantic, lease, asked>>

(* SemanticMatchGuard.allow                                                 *)
Allowed(k, i) == MeaningOf[k] = MeaningOf[i]

(* _entry_from_payload                                                      *)
Usable(entry, i) == entry.exp > 0 /\ ScopeOf[entry.data.src] = ScopeOf[i]

(* Mutant: the filter has no scope_hash, and no check follows.              *)
MatchesAnyScope(entry, i) ==
  /\ <<entry.data.src, i>> \in Near
  /\ Allowed(entry.data.src, i) /\ entry.exp > 0

(* Found by the vector search: the filter and the score threshold; then the *)
(* guard and the checks of the payload.                                     *)
Matches(entry, i) ==
  /\ <<entry.data.src, i>> \in Near
  /\ ScopeOf[entry.data.src] = ScopeOf[i]
  /\ Allowed(entry.data.src, i) /\ Usable(entry, i)

Candidates(i) == {semantic[k] : k \in {k \in Ids : semantic[k] # Nothing
                                                   /\ Matches(semantic[k], i)}}

(* SemanticCache.lookup: the nearest point that matches, whichever it is    *)
SearchHit(c) ==
  /\ At(c, "semantic")
  /\ \E entry \in Candidates(job[c].id) :
       job' = [job EXCEPT ![c] = AfterHit([job[c] EXCEPT
                 !.served = [entry |-> entry, ttl |-> SemanticTtl]])]
  /\ UNCHANGED <<exact, semantic, lease, asked>>

(* Nothing matches, or the embedding or the search raised.                  *)
SearchMiss(c) ==
  /\ At(c, "semantic")
  /\ Candidates(job[c].id) = {} \/ "break" \in Faults
  /\ job' = [job EXCEPT ![c] = AfterMiss(job[c])]
  /\ UNCHANGED <<exact, semantic, lease, asked>>

(* The result and done events are sent, and query() returns.                *)
Answer(c) ==
  /\ At(c, "answer")
  /\ job' = [job EXCEPT ![c] = NoJob]
  /\ UNCHANGED <<exact, semantic, lease, asked>>

-----------------------------------------------------------------------------
(* The fill lease                                                           *)

(* Mutant: the lease is SET NX without EX.                                  *)
AcquireForever(c) ==
  LET i == job[c].id
      free == lease[i] = Nothing IN
  /\ At(c, "lease")
  /\ lease' = IF free
              THEN [lease EXCEPT ![i] = [owner |-> c, left |-> Forever]]
              ELSE lease
  /\ job' = [job EXCEPT ![c].pc = IF free THEN "resume" ELSE "wait",
                        ![c].holds = free,
                        ![c].left = IF free THEN LeaseTtl ELSE 0,
                        ![c].waiting = ~free,
                        ![c].patience = IF free THEN 0 ELSE Patience]
  /\ UNCHANGED <<exact, semantic, asked>>

(* CacheLease.acquire: SET NX EX                                            *)
Acquire(c) ==
  LET i == job[c].id
      free == lease[i] = Nothing IN
  /\ At(c, "lease")
  /\ lease' = IF free
              THEN [lease EXCEPT ![i] = [owner |-> c, left |-> LeaseTtl]]
              ELSE lease
  /\ job' = [job EXCEPT ![c].pc = IF free THEN "resume" ELSE "wait",
                        ![c].holds = free,
                        ![c].left = IF free THEN LeaseTtl ELSE 0,
                        ![c].waiting = ~free,
                        ![c].patience = IF free THEN 0 ELSE Patience]
  /\ UNCHANGED <<exact, semantic, asked>>

(* Mutant: the deadline is computed anew for every poll.                    *)
PollAgain(c) ==
  /\ At(c, "wait")
  /\ job' = [job EXCEPT ![c].pc = "exact", ![c].patience = Patience]
  /\ UNCHANGED <<exact, semantic, lease, asked>>

(* wait_for_fill looks the identity up again until its time is over, then   *)
(* query() runs the graph without the lease.                                *)
Poll(c) ==
  /\ At(c, "wait") /\ job[c].patience > 0
  /\ Goto(c, "exact")
  /\ UNCHANGED <<exact, semantic, lease, asked>>

WaitIsOver(c) ==
  /\ At(c, "wait") /\ job[c].patience = 0
  /\ Goto(c, "resume")
  /\ UNCHANGED <<exact, semantic, lease, asked>>

(* resume_state, then the graph task is created and the try begins.         *)
RunGraph(c) ==
  /\ At(c, "resume")
  /\ Goto(c, "run")
  /\ UNCHANGED <<exact, semantic, lease, asked>>

-----------------------------------------------------------------------------
(* The end of the execution                                                 *)

(* CachePolicy.can_write with the metadata query() passes                   *)
CanWrite(resumed, payload) == ~resumed /\ "sensitive" \notin payload

(* CachePayloadSanitizer.sanitize_payload                                   *)
Sanitized(payload) == payload \cap {"safe"}

FinalPayloads == {payload \in SUBSET KeyKinds : "safe" \in payload}

(* _DONE arrived after a final answer. Whether query() resumed a checkpoint *)
(* it had known since its start.                                            *)
Complete(c) ==
  /\ At(c, "run")
  /\ \E payload \in FinalPayloads, resumed \in BOOLEAN :
       /\ CanWrite(resumed, payload)
       /\ job' = [job EXCEPT ![c].pc = "save",
                             ![c].toWrite = [src |-> job[c].id,
                                             resumed |-> resumed,
                                             keys |-> Sanitized(payload)]]
  /\ UNCHANGED <<exact, semantic, lease, asked>>

(* Time-out, error, disconnect or cancellation; an answer the policy        *)
(* refuses, or none at all.                                                 *)
NothingToCache(c) ==
  /\ At(c, "run")
  /\ Goto(c, "release")
  /\ UNCHANGED <<exact, semantic, lease, asked>>

NewEntry(c, ttl) == [data |-> job[c].toWrite, exp |-> ttl, age |-> 0]

(* ExactCache.save                                                          *)
SaveExact(c) ==
  /\ At(c, "save")
  /\ exact' = [exact EXCEPT ![job[c].id] =
                 [entry |-> NewEntry(c, ExactTtl), ttl |-> ExactTtl]]
  /\ Goto(c, "index")
  /\ UNCHANGED <<semantic, lease, asked>>

(* SemanticCache.save: the point's id is a hash of the identity             *)
SaveSemantic(c) ==
  /\ At(c, "index")
  /\ semantic' = [semantic EXCEPT ![job[c].id] = NewEntry(c, SemanticTtl)]
  /\ Goto(c, "release")
  /\ UNCHANGED <<exact, lease, asked>>

(* Either store raises: write swallows it and leaves the rest out.          *)
SaveFails(c) ==
  /\ At(c, "save") \/ At(c, "index")
  /\ "break" \in Faults
  /\ Goto(c, "release")
  /\ UNCHANGED <<exact, semantic, lease, asked>>

(* Mutant: DEL without the comparison.                                      *)
FreedAnyway(held, c) == Nothing

(* RELEASE_LEASE_LUA                                                        *)
Freed(held, c) == IF held # Nothing /\ held.owner = c THEN Nothing ELSE held

(* release_lease in the finally clause                                      *)
Release(c) ==
  LET i == job[c].id IN
  /\ At(c, "release")
  /\ lease' = IF job[c].holds THEN [lease EXCEPT ![i] = Freed(lease[i], c)]
              ELSE lease
  /\ job' = [job EXCEPT ![c] = NoJob]
  /\ UNCHANGED <<exact, semantic, asked>>

-----------------------------------------------------------------------------
(* What comes from outside                                                  *)

(* A call that is in no try raises or is cancelled (an exact hit's SET, the *)
(* lease's SET, resume_state, the release), or the worker dies: what the    *)
(* request holds stays in Redis.                                            *)
Break(c) ==
  /\ "break" \in Faults
  /\ ~At(c, "idle")
  /\ job' = [job EXCEPT ![c] = NoJob]
  /\ UNCHANGED <<exact, semantic, lease, asked>>

(* ExactCache.invalidate_scope                                              *)
Invalidate(scope) ==
  /\ "invalidate" \in Faults
  /\ \E i \in Ids : ScopeOf[i] = scope /\ exact[i] # Nothing
  /\ exact' = [i \in Ids |-> IF ScopeOf[i] = scope THEN Nothing ELSE exact[i]]
  /\ UNCHANGED <<job, semantic, lease, asked>>

(* Mutant: counts on below zero.                                            *)
LessUnclamped(n) == n - 1

Less(n) == IF n > 0 THEN n - 1 ELSE n
OldAge == IF ExactTtl > SemanticTtl THEN ExactTtl ELSE SemanticTtl
Older(entry) ==
  IF entry = Nothing THEN entry
  ELSE [entry EXCEPT !.exp = Less(@),
                     !.age = IF @ < OldAge THEN @ + 1 ELSE @]

(* Time passes for every key, every entry and every request at once.        *)
Tick ==
  /\ exact' = [i \in Ids |->
       IF exact[i] = Nothing \/ exact[i].ttl = 1 THEN Nothing
       ELSE [entry |-> Older(exact[i].entry), ttl |-> Less(exact[i].ttl)]]
  /\ semantic' = [i \in Ids |-> Older(semantic[i])]
  /\ lease' = [i \in Ids |->
       IF lease[i] = Nothing \/ lease[i].left = 1 THEN Nothing
       ELSE [lease[i] EXCEPT !.left = Less(@)]]
  /\ job' = [c \in Clients |-> [job[c] EXCEPT !.seen = Older(@),
                                              !.left = Less(@),
                                              !.patience = Less(@)]]
  /\ UNCHANGED asked

Step(c) ==
  \/ ReadExact(c) \/ ReadFails(c) \/ Purge(c) \/ Touch(c)
  \/ SearchHit(c) \/ SearchMiss(c)
  \/ Answer(c) \/ Acquire(c) \/ Poll(c) \/ WaitIsOver(c) \/ RunGraph(c)
  \/ Complete(c) \/ NothingToCache(c)
  \/ SaveExact(c) \/ SaveSemantic(c) \/ SaveFails(c) \/ Release(c)

Next ==
  \/ \E c \in Clients : \/ \E i \in AsksOf[c] : Start(c, i)
                        \/ Step(c)
                        \/ Break(c)
  \/ \E scope \in {ScopeOf[i] : i \in Ids} : Invalidate(scope)
  \/ Tick

(* Redis and Qdrant answer or raise, and a graph ends or times out, so      *)
(* every request goes on; and time passes.                                  *)
Spec == /\ Init /\ [][Next]_vars
        /\ \A c \in Clients : WF_vars(Step(c))
        /\ WF_vars(Tick)

-----------------------------------------------------------------------------
(* Two requests that both took the fill lease of one identity did not take  *)
(* it for overlapping times: no release, late or of a leaked lease, gives   *)
(* away what another request took while its time is not over. FillSpec,     *)
(* below, has this as a consequence and is what the run checks.             *)
LeaseExclusive ==
  \A c, d \in Clients :
    /\ c # d /\ job[c].id = job[d].id
    /\ job[c].holds /\ job[d].holds
    => job[c].left = 0 \/ job[d].left = 0

(* No answer is older than the time to live of the cache it is from,       *)
(* although counting a hit can bring back a key that expired, was           *)
(* overwritten or was invalidated, without any time to live in Redis.       *)
ServedFresh ==
  \A c \in Clients : job[c].served # Nothing =>
    job[c].served.entry.age < job[c].served.ttl

(* An answer from the cache was computed for the same scope and for a       *)
(* question with the same numbers, dates, limits, comparisons, direction    *)
(* and negation, by an execution that was not resumed, and holds nothing    *)
(* but listed keys.                                                         *)
ServedSound ==
  \A c \in Clients : job[c].served # Nothing =>
    /\ ScopeOf[job[c].served.entry.data.src] = ScopeOf[job[c].id]
    /\ MeaningOf[job[c].served.entry.data.src] = MeaningOf[job[c].id]
    /\ ~job[c].served.entry.data.resumed
    /\ job[c].served.entry.data.keys \subseteq {"safe"}

(* A lease does not outlive its holder for ever: whatever became of the     *)
(* request that took it, somebody else can take it later.                   *)
LeasesComeBack == \A i \in Ids : []<>(lease[i] = Nothing)

(* Every request ends, those that wait for a fill included.                 *)
RequestsEnd == \A c \in Clients : []<>At(c, "idle")

(* The leases that requests count on: the keys of Redis implement the       *)
(* abstract fill lease, with requests that outlive their lease and keys     *)
(* that outlive their request.                                              *)
Held == {[by |-> c, of |-> job[c].id, left |-> job[c].left] :
           c \in {c \in Clients : job[c].holds /\ job[c].left > 0}}
Fill == INSTANCE FillLease WITH held <- Held
FillSpec == Fill!Spec
=============================================================================
