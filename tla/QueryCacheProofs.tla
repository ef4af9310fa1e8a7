-------------------------- MODULE QueryCacheProofs --------------------------
(***************************************************************************)
(* Proofs about QueryCache for every set of clients and identities, every  *)
(* relation between them and every time to live: its types, that a fill    *)
(* lease is held by one request at a time, and that what the cache answers *)
(* is young enough, of the same scope and meaning, and clean.              *)
(***************************************************************************)
EXTENDS QueryCache, TLAPS

(* An entry that is still valid is as old as the time that it has left      *)
(* allows; what was cached is not from a resumed execution and has nothing  *)
(* but listed keys.                                                         *)
Young(entry, ttl) == entry.exp > 0 => entry.age + entry.exp <= ttl
Clean(payload) == ~payload.resumed /\ payload.keys \subseteq {"safe"}

ServedWell(j) == j.served # Nothing =>
  /\ j.served.entry.age < j.served.ttl
  /\ ScopeOf[j.served.entry.data.src] = ScopeOf[j.id]
  /\ MeaningOf[j.served.entry.data.src] = MeaningOf[j.id]
  /\ Clean(j.served.entry.data)

(* What a request carries between two awaits is as good as what is stored.  *)
Good(j) ==
  /\ j.seen # Nothing => Young(j.seen, ExactTtl) /\ Clean(j.seen.data)
  /\ j.toWrite # Nothing => Clean(j.toWrite)
  /\ j.pc = "touch" => j.seen # Nothing /\ j.seen.data.src = j.id
  /\ j.pc \in {"save", "index"} => j.toWrite # Nothing /\ j.toWrite.src = j.id
  /\ ServedWell(j)

ContentsInv ==
  /\ \A c \in Clients : Good(job[c])
  /\ \A i \in Ids : exact[i] # Nothing =>
       Young(exact[i].entry, ExactTtl) /\ Clean(exact[i].entry.data)
  /\ \A i \in Ids : semantic[i] # Nothing =>
       Young(semantic[i], SemanticTtl) /\ Clean(semantic[i].data)

LEMMA NoJobTyped == NoJob \in Jobs
<1>1. (CHOOSE i \in Ids : TRUE) \in Ids
  BY IdsAssumption
<1> QED
  BY <1>1, TtlAssumption DEF NoJob, Jobs, PCs

LEMMA EntryIsSomething ==
  ASSUME NEW entry \in Entries
  PROVE  entry # Nothing
<1>1. DOMAIN entry = {"data", "exp", "age"}
  BY DEF Entries
<1>2. DOMAIN Nothing = {"nothing"}
  BY DEF Nothing
<1> QED
  BY <1>1, <1>2

LEMMA OlderTyped ==
  ASSUME NEW entry \in Entries
  PROVE  /\ Older(entry) \in Entries
         /\ Older(entry).data = entry.data
         /\ Older(entry).exp = Less(entry.exp)
         /\ Older(entry).age = IF entry.age < OldAge THEN entry.age + 1
                               ELSE entry.age
<1>1. Older(entry) = [entry EXCEPT !.exp = Less(@),
                                   !.age = IF @ < OldAge THEN @ + 1 ELSE @]
  BY EntryIsSomething DEF Older
<1>2. Less(entry.exp) \in Nat
  BY DEF Entries, Less
<1>3. (IF entry.age < OldAge THEN entry.age + 1 ELSE entry.age) \in Nat
  BY DEF Entries
<1> QED
  BY <1>1, <1>2, <1>3 DEF Entries

LEMMA PayloadIsSomething ==
  ASSUME NEW payload \in Payloads
  PROVE  payload # Nothing
<1>1. DOMAIN payload = {"src", "resumed", "keys"}
  BY DEF Payloads
<1>2. DOMAIN Nothing = {"nothing"}
  BY DEF Nothing
<1> QED
  BY <1>1, <1>2

LEMMA OlderIsGood ==
  ASSUME NEW entry \in Entries, NEW ttl \in Nat, Young(entry, ttl)
  PROVE  Young(Older(entry), ttl)
<1>1. entry.exp \in Nat /\ entry.age \in Nat
  BY DEF Entries
<1> QED
  BY <1>1, OlderTyped DEF Young, Less

LEMMA LeaseTimes ==
  /\ 0 \in 0..LeaseTtl /\ LeaseTtl \in 0..LeaseTtl
  /\ 0 \in 0..Patience /\ Patience \in 0..Patience
BY TtlAssumption

LEMMA JobTimes ==
  ASSUME NEW j \in Jobs, NEW pc \in PCs, NEW left \in 0..LeaseTtl,
         NEW patience \in 0..Patience
  PROVE  [j EXCEPT !.pc = pc, !.left = left, !.patience = patience] \in Jobs
BY DEF Jobs

-----------------------------------------------------------------------------
(* What a step does to the request that takes it. *)
Becomes(c, j) == job' = [job EXCEPT ![c] = j]

LEMMA RequestStep ==
  ASSUME TypeOK, ContentsInv, NEW c \in Clients,
         Step(c) \/ Break(c) \/ \E i \in AsksOf[c] : Start(c, i)
  PROVE  \E j \in Jobs : Good(j) /\ Becomes(c, j)
<1> DEFINE j == job[c]
<1>0. /\ job \in [Clients -> Jobs] /\ j \in Jobs /\ Good(j) /\ j.id \in Ids
      /\ exact \in [Ids -> Keys \cup {Nothing}]
      /\ semantic \in [Ids -> Entries \cup {Nothing}]
  BY DEF TypeOK, ContentsInv, Jobs
<1>1. Good(NoJob)
  BY DEF Good, NoJob, ServedWell
<1>2. ASSUME NEW pc \in PCs \ {"touch", "save", "index"}, Goto(c, pc)
      PROVE  \E k \in Jobs : Good(k) /\ Becomes(c, k)
  <2>1. [j EXCEPT !.pc = pc] \in Jobs
    BY <1>0 DEF Jobs
  <2>2. Good([j EXCEPT !.pc = pc])
    BY <1>0 DEF Good, ServedWell, Jobs
  <2> QED
    BY <2>1, <2>2, <1>2, <1>0 DEF Goto, Becomes
<1>3. CASE ReadExact(c) /\ exact[j.id] # Nothing /\ Valid(exact[j.id].entry, j.id)
  <2> DEFINE entry == exact[j.id].entry
             k == [j EXCEPT !.pc = "touch", !.seen = entry,
                            !.served = [entry |-> entry, ttl |-> ExactTtl]]
  <2>1. /\ entry \in Entries /\ entry.exp \in Nat /\ entry.age \in Nat
        /\ entry.exp > 0 /\ entry.data.src = j.id
    BY <1>0, <1>3 DEF Keys, Entries, Valid
  <2>2. Young(entry, ExactTtl) /\ Clean(entry.data)
    BY <1>0, <1>3 DEF ContentsInv
  <2>3. entry.age < ExactTtl
    BY <2>1, <2>2, TtlAssumption DEF Young
  <2>4. [entry |-> entry, ttl |-> ExactTtl] \in [entry: Entries, ttl: Nat]
    BY <2>1, TtlAssumption
  <2>5. k \in Jobs
    BY <1>0, <2>1, <2>4 DEF Jobs, PCs
  <2>6. /\ k.pc = "touch" /\ k.seen = entry /\ k.id = j.id /\ k.toWrite = j.toWrite
        /\ k.served.entry = entry /\ k.served.ttl = ExactTtl
    BY <1>0 DEF Jobs
  <2>7. Good(k)
    BY <1>0, <2>1, <2>2, <2>3, <2>6, EntryIsSomething DEF Good, ServedWell
  <2>8. Becomes(c, k)
    BY <1>0, <1>3 DEF ReadExact, Becomes
  <2> QED
    BY <2>5, <2>7, <2>8
<1>4. CASE ReadExact(c) /\ ~(exact[j.id] # Nothing /\ Valid(exact[j.id].entry, j.id))
  BY <1>2, <1>4 DEF ReadExact, PCs
<1>5. CASE ReadFails(c) \/ Purge(c) \/ Poll(c) \/ WaitIsOver(c) \/ RunGraph(c)
           \/ NothingToCache(c) \/ SaveSemantic(c) \/ SaveFails(c)
  BY <1>2, <1>5 DEF ReadFails, Purge, Poll, WaitIsOver, RunGraph, NothingToCache,
                    SaveSemantic, SaveFails, PCs
<1>6. CASE SaveExact(c)
  <2> DEFINE k == [j EXCEPT !.pc = "index"]
  <2>1. k \in Jobs
    BY <1>0 DEF Jobs, PCs
  <2>2. Good(k)
    BY <1>0, <1>6 DEF Good, ServedWell, Jobs, SaveExact, At
  <2> QED
    BY <2>1, <2>2, <1>0, <1>6 DEF SaveExact, Goto, Becomes
<1>7. ASSUME NEW k \in Jobs, Good(k), k.pc = "semantic" \/ k.pc = "touch"
      PROVE  AfterHit(k) \in Jobs /\ Good(AfterHit(k))
  <2>1. CASE k.waiting
    <3>1. AfterHit(k) = [k EXCEPT !.pc = "wait", !.seen = Nothing, !.served = Nothing]
      BY <2>1 DEF AfterHit
    <3> QED
      BY <1>7, <3>1 DEF Jobs, PCs, Good, ServedWell
  <2>2. CASE ~k.waiting
    <3>1. AfterHit(k) = [k EXCEPT !.pc = "answer", !.seen = Nothing]
      BY <2>2 DEF AfterHit
    <3> QED
      BY <1>7, <3>1 DEF Jobs, PCs, Good, ServedWell
  <2> QED
    BY <2>1, <2>2
<1>8. CASE Touch(c)
  BY <1>0, <1>7, <1>8 DEF Touch, At, Becomes
<1>9. CASE SearchHit(c)
  <2>1. PICK entry \in Candidates(j.id) :
          job' = [job EXCEPT ![c] = AfterHit([j EXCEPT
                    !.served = [entry |-> entry, ttl |-> SemanticTtl]])]
    BY <1>9 DEF SearchHit
  <2> DEFINE k == [j EXCEPT !.served = [entry |-> entry, ttl |-> SemanticTtl]]
  <2>2. PICK i \in Ids : entry = semantic[i] /\ semantic[i] # Nothing
                         /\ Matches(entry, j.id)
    BY DEF Candidates
  <2>3. entry \in Entries /\ entry.exp \in Nat /\ entry.age \in Nat
    BY <1>0, <2>2 DEF Entries
  <2>4. Young(entry, SemanticTtl) /\ Clean(entry.data)
    BY <2>2 DEF ContentsInv
  <2>5. /\ entry.age < SemanticTtl
        /\ ScopeOf[entry.data.src] = ScopeOf[j.id]
        /\ MeaningOf[entry.data.src] = MeaningOf[j.id]
    BY <2>2, <2>3, <2>4, TtlAssumption DEF Young, Matches, Usable, Allowed
  <2>6. [entry |-> entry, ttl |-> SemanticTtl] \in [entry: Entries, ttl: Nat]
    BY <2>3, TtlAssumption
  <2>7. k \in Jobs
    BY <1>0, <2>6 DEF Jobs
  <2>8. /\ k.pc = "semantic" /\ k.seen = j.seen /\ k.id = j.id /\ k.toWrite = j.toWrite
        /\ k.served.entry = entry /\ k.served.ttl = SemanticTtl
    BY <1>0, <1>9 DEF Jobs, SearchHit, At
  <2>9. Good(k)
    BY <1>0, <2>4, <2>5, <2>8 DEF Good, ServedWell
  <2>10. AfterHit(k) \in Jobs /\ Good(AfterHit(k))
    BY <1>7, <2>7, <2>8, <2>9
  <2> QED
    BY <2>1, <2>10 DEF Becomes
<1>10. CASE SearchMiss(c)
  <2> DEFINE pc == IF j.waiting THEN "wait" ELSE "lease"
  <2>1. pc \in PCs \ {"touch", "save", "index"}
    BY DEF PCs
  <2>2. Goto(c, pc)
    BY <1>0, <1>10 DEF SearchMiss, AfterMiss, Goto
  <2> QED
    BY <2>1, <2>2, <1>2
<1>11. CASE Answer(c) \/ Release(c) \/ Break(c)
  BY <1>1, <1>11, NoJobTyped DEF Answer, Release, Break, Becomes
<1>12. CASE Acquire(c)
  <2>1. CASE lease[j.id] = Nothing
    <3> DEFINE k == [j EXCEPT !.pc = "resume", !.holds = TRUE, !.left = LeaseTtl,
                              !.waiting = FALSE, !.patience = 0]
    <3> DEFINE k1 == [j EXCEPT !.pc = "resume", !.left = LeaseTtl, !.patience = 0]
    <3>2. k1 \in Jobs
      BY <1>0, LeaseTimes, JobTimes DEF PCs
    <3>3. [k1 EXCEPT !.holds = TRUE, !.waiting = FALSE] \in Jobs
      BY <3>2 DEF Jobs
    <3>4. k = [k1 EXCEPT !.holds = TRUE, !.waiting = FALSE]
      BY <1>0 DEF Jobs
    <3>0. k \in Jobs
      BY <3>3, <3>4
    <3>1. Good(k)
      BY <1>0 DEF Jobs, Good, ServedWell
    <3>5. Becomes(c, k)
      BY <1>0, <1>12, <2>1 DEF Acquire, Becomes
    <3> QED BY <3>0, <3>1, <3>5
  <2>2. CASE lease[j.id] # Nothing
    <3> DEFINE k == [j EXCEPT !.pc = "wait", !.holds = FALSE, !.left = 0,
                              !.waiting = TRUE, !.patience = Patience]
    <3> DEFINE k1 == [j EXCEPT !.pc = "wait", !.left = 0, !.patience = Patience]
    <3>2. k1 \in Jobs
      BY <1>0, LeaseTimes, JobTimes DEF PCs
    <3>3. [k1 EXCEPT !.holds = FALSE, !.waiting = TRUE] \in Jobs
      BY <3>2 DEF Jobs
    <3>4. k = [k1 EXCEPT !.holds = FALSE, !.waiting = TRUE]
      BY <1>0 DEF Jobs
    <3>0. k \in Jobs
      BY <3>3, <3>4
    <3>1. Good(k)
      BY <1>0 DEF Jobs, Good, ServedWell
    <3>5. Becomes(c, k)
      BY <1>0, <1>12, <2>2 DEF Acquire, Becomes
    <3> QED BY <3>0, <3>1, <3>5
  <2> QED BY <2>1, <2>2
<1>13. CASE Complete(c)
  <2>1. PICK payload \in FinalPayloads, resumed \in BOOLEAN :
          /\ CanWrite(resumed, payload)
          /\ job' = [job EXCEPT ![c].pc = "save",
                ![c].toWrite = [src |-> job[c].id, resumed |-> resumed,
                                keys |-> Sanitized(payload)]]
    BY <1>13 DEF Complete
  <2> DEFINE w == [src |-> j.id, resumed |-> resumed, keys |-> Sanitized(payload)]
             k == [j EXCEPT !.pc = "save", !.toWrite = w]
  <2>2. w \in Payloads
    BY <1>0 DEF Payloads, Sanitized, KeyKinds
  <2>3. Clean(w)
    BY <2>1 DEF Clean, CanWrite, Sanitized
  <2>4. k \in Jobs
    BY <1>0, <2>2 DEF Jobs, PCs
  <2>5. /\ k.pc = "save" /\ k.toWrite = w /\ k.id = j.id /\ k.seen = j.seen
        /\ k.served = j.served /\ w.src = j.id
    BY <1>0 DEF Jobs
  <2>6. Good(k)
    BY <1>0, <2>2, <2>3, <2>5, PayloadIsSomething DEF Good, ServedWell
  <2>7. Becomes(c, k)
    BY <1>0, <2>1 DEF Becomes
  <2> QED BY <2>4, <2>6, <2>7
<1>14. ASSUME NEW i \in AsksOf[c], Start(c, i)
       PROVE  \E k \in Jobs : Good(k) /\ Becomes(c, k)
  <2> DEFINE k == [NoJob EXCEPT !.pc = "exact", !.id = i]
  <2>1. i \in Ids
    BY IdsAssumption
  <2>2. k \in Jobs
    BY <2>1, NoJobTyped DEF Jobs, PCs
  <2>3. Good(k)
    BY DEF Good, NoJob, ServedWell
  <2> QED
    BY <1>14, <2>2, <2>3 DEF Start, Becomes
<1> QED
  BY <1>3, <1>4, <1>5, <1>6, <1>8, <1>9, <1>10, <1>11, <1>12, <1>13, <1>14 DEF Step

(* What a step does to the two stores and the lease keys. *)
LEMMA ExactStep ==
  ASSUME TypeOK, ContentsInv, [Next]_vars
  PROVE  /\ exact' \in [Ids -> Keys \cup {Nothing}]
         /\ \A i \in Ids : exact'[i] # Nothing =>
              /\ exact'[i].entry.data.src = i
              /\ Young(exact'[i].entry, ExactTtl) /\ Clean(exact'[i].entry.data)
<1> DEFINE Fine(i, key) == /\ key.entry.data.src = i
                           /\ Young(key.entry, ExactTtl) /\ Clean(key.entry.data)
<1>0. /\ exact \in [Ids -> Keys \cup {Nothing}]
      /\ \A i \in Ids : exact[i] # Nothing => Fine(i, exact[i])
      /\ \A c \in Clients : job[c] \in Jobs /\ job[c].id \in Ids /\ Good(job[c])
  BY DEF TypeOK, ContentsInv, Jobs
<1>1. ASSUME NEW c \in Clients, Purge(c) PROVE exact' = [exact EXCEPT ![job[c].id] = Nothing]
                                                \/ exact' = exact
  BY <1>1 DEF Purge
<1>2. ASSUME NEW c \in Clients, Touch(c) \/ SaveExact(c)
      PROVE  \E key \in Keys : Fine(job[c].id, key) /\ exact' = [exact EXCEPT ![job[c].id] = key]
  <2>1. CASE Touch(c)
    <3> DEFINE i == job[c].id
               t == IF exact[i] = Nothing THEN Forever ELSE exact[i].ttl
               key == [entry |-> job[c].seen, ttl |-> t]
    <3>1. /\ job[c].seen \in Entries /\ job[c].seen.data.src = i
          /\ Young(job[c].seen, ExactTtl) /\ Clean(job[c].seen.data)
      BY <1>0, <2>1 DEF Touch, At, Good, Jobs
    <3>2. t \in 1..ExactTtl \cup {Forever}
      BY <1>0 DEF Keys
    <3> QED
      BY <3>1, <3>2, <2>1 DEF Touch, Keys
  <2>2. CASE SaveExact(c)
    <3> DEFINE i == job[c].id
               entry == [data |-> job[c].toWrite, exp |-> ExactTtl, age |-> 0]
    <3>1. job[c].toWrite \in Payloads /\ job[c].toWrite.src = i /\ Clean(job[c].toWrite)
      BY <1>0, <2>2 DEF SaveExact, At, Good, Jobs
    <3>2. entry \in Entries
      BY <3>1, TtlAssumption DEF Entries
    <3>3. Young(entry, ExactTtl)
      BY TtlAssumption DEF Young
    <3>4. [entry |-> entry, ttl |-> ExactTtl] \in Keys
      BY <3>2, TtlAssumption DEF Keys
    <3> QED
      BY <3>1, <3>3, <3>4, <2>2 DEF SaveExact, NewEntry
  <2> QED BY <1>2, <2>1, <2>2
<1>3. ASSUME NEW scope, Invalidate(scope)
      PROVE  exact' = [i \in Ids |-> IF ScopeOf[i] = scope THEN Nothing ELSE exact[i]]
  BY <1>3 DEF Invalidate
<1>4. CASE Tick
  <2>1. ASSUME NEW i \in Ids, exact[i] # Nothing, exact[i].ttl # 1
        PROVE  LET key == [entry |-> Older(exact[i].entry), ttl |-> Less(exact[i].ttl)]
               IN  key \in Keys /\ Fine(i, key)
    <3> DEFINE entry == exact[i].entry
               t == Less(exact[i].ttl)
    <3>1. entry \in Entries /\ Fine(i, exact[i])
      BY <1>0, <2>1 DEF Keys
    <3>2. t \in 1..ExactTtl \cup {Forever}
      BY <1>0, <2>1, TtlAssumption DEF Keys, Less, Forever
    <3>3. Older(entry) \in Entries /\ Older(entry).data = entry.data
      BY <3>1, OlderTyped
    <3>4. Young(Older(entry), ExactTtl)
      BY <3>1, OlderIsGood, TtlAssumption
    <3> QED
      BY <3>1, <3>2, <3>3, <3>4 DEF Keys
  <2> QED
    BY <1>0, <1>4, <2>1 DEF Tick
<1>5. CASE exact' = exact
  BY <1>0, <1>5
<1> QED
  <2>1. \/ \E c \in Clients : Purge(c) \/ Touch(c) \/ SaveExact(c)
        \/ \E scope \in {ScopeOf[i] : i \in Ids} : Invalidate(scope)
        \/ Tick
        \/ exact' = exact
    BY ZenonT(40) DEF Next, Step, vars, Start, Break, ReadExact, ReadFails, SearchHit,
       SearchMiss, Answer, Acquire, Poll, WaitIsOver, RunGraph, Complete,
       NothingToCache, SaveSemantic, SaveFails, Release
  <2>2. ASSUME NEW c \in Clients, Touch(c) \/ SaveExact(c)
        PROVE  /\ exact' \in [Ids -> Keys \cup {Nothing}]
               /\ \A i \in Ids : exact'[i] # Nothing => Fine(i, exact'[i])
    <3>1. PICK key \in Keys :
            Fine(job[c].id, key) /\ exact' = [exact EXCEPT ![job[c].id] = key]
      BY <1>2, <2>2
    <3> QED BY <1>0, <3>1
  <2>3. ASSUME NEW c \in Clients, Purge(c)
        PROVE  /\ exact' \in [Ids -> Keys \cup {Nothing}]
               /\ \A i \in Ids : exact'[i] # Nothing => Fine(i, exact'[i])
    BY <1>0, <1>1, <2>3
  <2>4. ASSUME NEW scope, Invalidate(scope)
        PROVE  /\ exact' \in [Ids -> Keys \cup {Nothing}]
               /\ \A i \in Ids : exact'[i] # Nothing => Fine(i, exact'[i])
    BY <1>0, <1>3, <2>4
  <2> QED BY <1>4, <1>5, <2>1, <2>2, <2>3, <2>4

LEMMA SemanticStep ==
  ASSUME TypeOK, ContentsInv, [Next]_vars
  PROVE  /\ semantic' \in [Ids -> Entries \cup {Nothing}]
         /\ \A i \in Ids : semantic'[i] # Nothing =>
              /\ semantic'[i].data.src = i
              /\ Young(semantic'[i], SemanticTtl) /\ Clean(semantic'[i].data)
<1> DEFINE Fine(i, entry) == /\ entry.data.src = i
                             /\ Young(entry, SemanticTtl) /\ Clean(entry.data)
<1>0. /\ semantic \in [Ids -> Entries \cup {Nothing}]
      /\ \A i \in Ids : semantic[i] # Nothing => Fine(i, semantic[i])
      /\ \A c \in Clients : job[c] \in Jobs /\ job[c].id \in Ids /\ Good(job[c])
  BY DEF TypeOK, ContentsInv, Jobs
<1>1. ASSUME NEW c \in Clients, SaveSemantic(c)
      PROVE  /\ semantic' \in [Ids -> Entries \cup {Nothing}]
             /\ \A i \in Ids : semantic'[i] # Nothing => Fine(i, semantic'[i])
  <2> DEFINE entry == [data |-> job[c].toWrite, exp |-> SemanticTtl, age |-> 0]
  <2>1. /\ job[c].toWrite \in Payloads /\ job[c].toWrite.src = job[c].id
        /\ Clean(job[c].toWrite)
    BY <1>0, <1>1 DEF SaveSemantic, At, Good, Jobs
  <2>2. entry \in Entries
    BY <2>1, TtlAssumption DEF Entries
  <2>3. Young(entry, SemanticTtl)
    BY TtlAssumption DEF Young
  <2>4. Fine(job[c].id, entry)
    BY <2>1, <2>3
  <2>5. semantic' = [semantic EXCEPT ![job[c].id] = entry]
    BY <1>1 DEF SaveSemantic, NewEntry
  <2> QED
    BY <1>0, <2>2, <2>4, <2>5
<1>2. CASE Tick
  <2>1. ASSUME NEW i \in Ids
        PROVE  /\ Older(semantic[i]) \in Entries \cup {Nothing}
               /\ Older(semantic[i]) # Nothing => Fine(i, Older(semantic[i]))
    <3>1. CASE semantic[i] = Nothing
      BY <3>1 DEF Older
    <3>2. CASE semantic[i] \in Entries
      BY <1>0, <3>2, OlderTyped, OlderIsGood, EntryIsSomething, TtlAssumption
    <3> QED BY <1>0, <3>1, <3>2
  <2> QED
    BY <1>2, <2>1 DEF Tick
<1>3. CASE semantic' = semantic
  BY <1>0, <1>3
<1> QED
  <2>1. \/ \E c \in Clients : SaveSemantic(c)
        \/ Tick
        \/ semantic' = semantic
    BY ZenonT(40) DEF Next, Step, vars, Start, Break, ReadExact, ReadFails, Purge,
       Touch, SearchHit, SearchMiss, Answer, Acquire, Poll, WaitIsOver, RunGraph, Complete,
       NothingToCache, SaveExact, SaveFails, Release, Invalidate
  <2> QED BY <1>1, <1>2, <1>3, <2>1

LEMMA JobsStep ==
  ASSUME TypeOK, ContentsInv, [Next]_vars
  PROVE  /\ job' \in [Clients -> Jobs]
         /\ \A c \in Clients : Good(job'[c])
<1>0. /\ job \in [Clients -> Jobs]
      /\ \A c \in Clients : job[c] \in Jobs /\ Good(job[c])
  BY DEF TypeOK, ContentsInv
<1>1. ASSUME NEW c \in Clients, Step(c) \/ Break(c) \/ \E i \in AsksOf[c] : Start(c, i)
      PROVE  /\ job' \in [Clients -> Jobs]
             /\ \A d \in Clients : Good(job'[d])
  <2>1. PICK j \in Jobs : Good(j) /\ Becomes(c, j)
    BY <1>1, RequestStep
  <2> QED
    BY <1>0, <2>1 DEF Becomes
<1>2. CASE Tick
  <2>1. ASSUME NEW j \in Jobs, Good(j)
        PROVE  LET k == [j EXCEPT !.seen = Older(@), !.left = Less(@), !.patience = Less(@)]
               IN  k \in Jobs /\ Good(k)
    <3> DEFINE k == [j EXCEPT !.seen = Older(@), !.left = Less(@), !.patience = Less(@)]
    <3>1. /\ Older(j.seen) \in Entries \cup {Nothing}
          /\ j.seen = Nothing => Older(j.seen) = Nothing
          /\ j.seen # Nothing => Older(j.seen) # Nothing /\ Older(j.seen).data = j.seen.data
      <4>1. CASE j.seen = Nothing
        BY <4>1 DEF Older
      <4>2. CASE j.seen \in Entries
        BY <4>2, OlderTyped, EntryIsSomething
      <4> QED BY <2>1, <4>1, <4>2 DEF Jobs
    <3>2. Less(j.left) \in 0..LeaseTtl /\ Less(j.patience) \in 0..Patience
      BY <2>1, TtlAssumption DEF Jobs, Less
    <3>3. k \in Jobs
      BY <2>1, <3>1, <3>2 DEF Jobs
    <3>4. j.seen # Nothing => Young(Older(j.seen), ExactTtl) /\ Clean(Older(j.seen).data)
      BY <2>1, <3>1, OlderIsGood, TtlAssumption DEF Good, Jobs
    <3>5. /\ k.seen = Older(j.seen) /\ k.pc = j.pc /\ k.id = j.id
          /\ k.toWrite = j.toWrite /\ k.served = j.served
      BY <2>1 DEF Jobs
    <3>6. Good(k)
      BY <2>1, <3>1, <3>4, <3>5 DEF Good, ServedWell
    <3> QED BY <3>3, <3>6
  <2> QED
    BY <1>0, <1>2, <2>1 DEF Tick
<1>3. CASE job' = job
  BY <1>0, <1>3
<1> QED
  BY <1>1, <1>2, <1>3 DEF Next, Invalidate, vars

LEMMA LeaseStep ==
  ASSUME TypeOK, [Next]_vars
  PROVE  lease' \in [Ids -> Leases \cup {Nothing}]
<1>0. /\ lease \in [Ids -> Leases \cup {Nothing}]
      /\ \A c \in Clients : job[c].id \in Ids
  BY DEF TypeOK, Jobs
<1>1. ASSUME NEW c \in Clients, Acquire(c)
      PROVE  lease' \in [Ids -> Leases \cup {Nothing}]
  <2>1. [owner |-> c, left |-> LeaseTtl] \in Leases
    BY TtlAssumption DEF Leases
  <2> QED BY <1>0, <1>1, <2>1 DEF Acquire
<1>2. ASSUME NEW c \in Clients, Release(c)
      PROVE  lease' \in [Ids -> Leases \cup {Nothing}]
  BY <1>0, <1>2 DEF Release, Freed
<1>3. CASE Tick
  <2>1. ASSUME NEW i \in Ids, lease[i] # Nothing, lease[i].left # 1
        PROVE  [lease[i] EXCEPT !.left = Less(@)] \in Leases
    BY <1>0, <2>1, TtlAssumption DEF Leases, Less
  <2> QED BY <1>0, <1>3, <2>1 DEF Tick
<1>4. CASE lease' = lease
  BY <1>0, <1>4
<1> QED
  BY <1>1, <1>2, <1>3, <1>4 DEF Next, Step, vars, Start, Break, ReadExact, ReadFails, Purge,
     Touch, SearchHit, SearchMiss, Answer, Poll, WaitIsOver, RunGraph, Complete,
     NothingToCache, SaveExact, SaveSemantic, SaveFails, Invalidate

THEOREM ContentsInvariant == Spec => [](TypeOK /\ ContentsInv)
<1>1. Init => TypeOK /\ ContentsInv
  <2> SUFFICES ASSUME Init PROVE TypeOK /\ ContentsInv
    OBVIOUS
  <2>1. Good(NoJob)
    BY DEF Good, NoJob, ServedWell
  <2> QED
    BY <2>1, NoJobTyped, BoundsAssumption DEF Init, TypeOK, ContentsInv
<1>2. TypeOK /\ ContentsInv /\ [Next]_vars => (TypeOK /\ ContentsInv)'
  <2> SUFFICES ASSUME TypeOK, ContentsInv, [Next]_vars
               PROVE  TypeOK' /\ ContentsInv'
    OBVIOUS
  <2>1. asked' \in 0..MaxRequests
    <3>1. ASSUME NEW c \in Clients, NEW i \in AsksOf[c], Start(c, i)
          PROVE  asked' \in 0..MaxRequests
      BY <3>1, BoundsAssumption DEF Start, TypeOK
    <3>2. CASE asked' = asked
      BY <3>2 DEF TypeOK
    <3> QED
      BY <3>1, <3>2, ZenonT(40) DEF Next, Step, vars, Break, ReadExact, ReadFails, Purge, Touch,
         SearchHit, SearchMiss, Answer, Acquire, Poll, WaitIsOver, RunGraph, Complete,
         NothingToCache, SaveExact, SaveSemantic, SaveFails, Release, Invalidate, Tick
  <2> QED
    BY <2>1, ExactStep, SemanticStep, JobsStep, LeaseStep DEF TypeOK, ContentsInv
<1> QED
  BY <1>1, <1>2, PTL DEF Spec

(* TypeOK is an invariant: a request is always somewhere in query(), a key  *)
(* is filed under the identity of what it holds, and times stay in range.   *)
THEOREM TypeCorrect == Spec => []TypeOK
BY ContentsInvariant, PTL

(* ServedFresh is an invariant for every time to live: however often a hit  *)
(* brings a key back, no entry is older than what is missing of its time.   *)
THEOREM FreshAnswers == Spec => []ServedFresh
<1>1. ContentsInv => ServedFresh
  BY DEF ContentsInv, Good, ServedWell, ServedFresh
<1> QED BY <1>1, ContentsInvariant, PTL

(* ServedSound is an invariant for every relation between the identities.   *)
THEOREM SoundAnswers == Spec => []ServedSound
<1>1. ContentsInv => ServedSound
  BY DEF ContentsInv, Good, ServedWell, Clean, ServedSound
<1> QED BY <1>1, ContentsInvariant, PTL

-----------------------------------------------------------------------------
(* Whoever believes to hold the fill lease, within the time it took it for, *)
(* is its owner in Redis, for exactly that time.                            *)
Believes(c) == job[c].holds /\ job[c].left > 0
LeaseInv ==
  \A c \in Clients : Believes(c) =>
    /\ lease[job[c].id] # Nothing
    /\ lease[job[c].id].owner = c
    /\ lease[job[c].id].left = job[c].left

LEMMA LeaseIsSomething ==
  ASSUME NEW l \in Leases
  PROVE  l # Nothing
<1>1. DOMAIN l = {"owner", "left"}
  BY DEF Leases
<1>2. DOMAIN Nothing = {"nothing"}
  BY DEF Nothing
<1> QED
  BY <1>1, <1>2

(* Where a request is that holds a lease.                                   *)
Filling == {"resume", "run", "save", "index", "release"}
HoldInv == \A c \in Clients : job[c].holds => job[c].pc \in Filling

(* A step of one request that does not touch the lease in Redis: it holds   *)
(* none afterwards, or goes on with the one it has.                         *)
GoesOn(c) ==
  /\ job[c].left = job'[c].left /\ job[c].id = job'[c].id
  /\ job'[c].holds => job[c].holds
  /\ job[c].pc \in Filling => job'[c].pc \in Filling
Keeps(c) ==
  /\ lease' = lease
  /\ \A d \in Clients \ {c} : job'[d] = job[d]
  /\ ~job'[c].holds \/ GoesOn(c)

(* Only these steps are about leases.                                       *)
LEMMA HoldingStep ==
  ASSUME TypeOK, [Next]_vars
  PROVE  \/ Tick \/ UNCHANGED <<job, lease>>
         \/ \E c \in Clients : Acquire(c) \/ Release(c) \/ Keeps(c)
<1>0. /\ job \in [Clients -> Jobs]
      /\ \A c \in Clients : job[c] \in Jobs
  BY DEF TypeOK
<1>1. ASSUME NEW c \in Clients, NEW pc \in PCs, Goto(c, pc), lease' = lease,
             job[c].pc \in Filling => pc \in Filling
      PROVE  Keeps(c)
  BY <1>0, <1>1 DEF Goto, Jobs, Keeps, GoesOn
<1>2. ASSUME NEW c \in Clients, NEW i \in AsksOf[c], Start(c, i) PROVE Keeps(c)
  BY <1>0, <1>2 DEF Start, NoJob, Keeps
<1>3. ASSUME NEW c \in Clients, Break(c) \/ Answer(c) PROVE Keeps(c)
  BY <1>0, <1>3 DEF Break, Answer, NoJob, Keeps
<1>4. ASSUME NEW c \in Clients, ReadExact(c) PROVE Keeps(c)
  <2>1. /\ lease' = lease /\ job[c].pc \notin Filling
        /\ \A d \in Clients \ {c} : job'[d] = job[d]
        /\ job'[c].left = job[c].left /\ job'[c].id = job[c].id
        /\ job'[c].holds = job[c].holds
    BY <1>0, <1>4 DEF ReadExact, Goto, Jobs, At, Filling
  <2> QED
    BY <2>1 DEF Keeps, GoesOn
<1>5. ASSUME NEW c \in Clients, Touch(c) \/ SearchHit(c) \/ SearchMiss(c)
      PROVE  Keeps(c)
  <2>1. job[c].pc \notin Filling /\ lease' = lease
    BY <1>5 DEF Touch, SearchHit, SearchMiss, At, Filling
  <2>2. ASSUME NEW j \in Jobs
        PROVE  /\ AfterHit(j).id = j.id /\ AfterHit(j).left = j.left
               /\ AfterHit(j).holds => j.holds
    BY DEF AfterHit, Jobs
  <2>3. ASSUME NEW j \in Jobs
        PROVE  /\ AfterMiss(j).id = j.id /\ AfterMiss(j).left = j.left
               /\ AfterMiss(j).holds => j.holds
    BY DEF AfterMiss, Jobs
  <2>4. ASSUME NEW k \in Jobs, job' = [job EXCEPT ![c] = k],
               k.id = job[c].id, k.left = job[c].left, k.holds => job[c].holds
        PROVE  Keeps(c)
    BY <1>0, <2>1, <2>4 DEF Keeps, GoesOn
  <2>5. CASE Touch(c)
    <3>1. job' = [job EXCEPT ![c] = AfterHit(job[c])] /\ job[c] \in Jobs
      BY <1>0, <2>5 DEF Touch
    <3>2. /\ \A d \in Clients \ {c} : job'[d] = job[d]
          /\ job'[c] = AfterHit(job[c])
      BY <1>0, <3>1
    <3> QED
      BY <2>1, <2>2, <3>1, <3>2 DEF Keeps, GoesOn
  <2>6. CASE SearchHit(c)
    <3>1. PICK entry \in Candidates(job[c].id) :
            job' = [job EXCEPT ![c] = AfterHit([job[c] EXCEPT
                      !.served = [entry |-> entry, ttl |-> SemanticTtl]])]
      BY <2>6 DEF SearchHit
    <3> DEFINE k == [job[c] EXCEPT !.served = [entry |-> entry, ttl |-> SemanticTtl]]
    <3>2. entry \in Entries
      BY DEF Candidates, TypeOK
    <3>3. [entry |-> entry, ttl |-> SemanticTtl] \in [entry: Entries, ttl: Nat]
      BY <3>2, TtlAssumption
    <3>4. k \in Jobs
      BY <1>0, <3>3 DEF Jobs
    <3>5. k.id = job[c].id /\ k.left = job[c].left /\ (k.holds => job[c].holds)
      BY <1>0 DEF Jobs
    <3> HIDE DEF k
    <3>6. /\ \A d \in Clients \ {c} : job'[d] = job[d]
          /\ job'[c] = AfterHit(k)
      BY <1>0, <3>1 DEF k
    <3> QED
      BY <2>1, <2>2, <3>4, <3>5, <3>6 DEF Keeps, GoesOn
  <2>7. CASE SearchMiss(c)
    <3>1. job' = [job EXCEPT ![c] = AfterMiss(job[c])] /\ job[c] \in Jobs
      BY <1>0, <2>7 DEF SearchMiss
    <3>2. /\ \A d \in Clients \ {c} : job'[d] = job[d]
          /\ job'[c] = AfterMiss(job[c])
      BY <1>0, <3>1
    <3> QED
      BY <2>1, <2>3, <3>1, <3>2 DEF Keeps, GoesOn
  <2> QED
    BY <1>5, <2>5, <2>6, <2>7
<1>6. ASSUME NEW c \in Clients, Complete(c) PROVE Keeps(c)
  BY <1>0, <1>6 DEF Complete, Jobs, Keeps, GoesOn, Filling
<1>7. ASSUME NEW c \in Clients,
             \/ ReadFails(c) \/ Purge(c) \/ Poll(c) \/ WaitIsOver(c) \/ RunGraph(c)
             \/ NothingToCache(c) \/ SaveExact(c) \/ SaveSemantic(c) \/ SaveFails(c)
      PROVE  Keeps(c)
  BY <1>1, <1>7 DEF PCs, Filling, At, ReadFails, Purge, Poll, WaitIsOver, RunGraph,
     NothingToCache, SaveExact, SaveSemantic, SaveFails
<1> QED
  BY <1>2, <1>3, <1>4, <1>5, <1>6, <1>7 DEF Next, Step, Invalidate, vars

(* What acquiring and releasing do to the request.                          *)
LEMMA LeaseSteps ==
  ASSUME TypeOK, NEW c \in Clients
  PROVE  /\ Acquire(c) \/ Release(c) =>
              \A d \in Clients \ {c} : job'[d] = job[d]
         /\ Release(c) => ~job'[c].holds /\ job'[c].left = 0
         /\ Acquire(c) /\ lease[job[c].id] # Nothing => ~job'[c].holds
         /\ Acquire(c) /\ lease[job[c].id] = Nothing =>
              /\ job'[c].holds /\ job'[c].left = LeaseTtl
              /\ job'[c].id = job[c].id /\ job'[c].pc = "resume"
<1>1. job \in [Clients -> Jobs] /\ job[c] \in Jobs
  BY DEF TypeOK
<1> QED
  BY <1>1 DEF Acquire, Release, NoJob, Jobs

(* Time passes for every request alike.                                     *)
LEMMA TickEffect ==
  ASSUME TypeOK, Tick, NEW c \in Clients
  PROVE  /\ job'[c].id = job[c].id /\ job'[c].left = Less(job[c].left)
         /\ job'[c].holds = job[c].holds /\ job'[c].pc = job[c].pc
         /\ job[c].left \in Nat
<1>0. job[c] \in Jobs
  BY DEF TypeOK
<1>1. job'[c] = [job[c] EXCEPT !.seen = Older(@), !.left = Less(@), !.patience = Less(@)]
  BY DEF Tick
<1>2. job[c].left \in Nat
  BY <1>0, TtlAssumption DEF Jobs
<1> QED
  BY <1>0, <1>1, <1>2 DEF Jobs

(* A request holds a lease only between acquiring and releasing it.         *)
LEMMA HoldInvariant == Spec => []HoldInv
<1>1. Init => HoldInv
  BY DEF Init, HoldInv, NoJob
<1>2. TypeOK /\ HoldInv /\ [Next]_vars => HoldInv'
  <2> SUFFICES ASSUME TypeOK, HoldInv, [Next]_vars PROVE HoldInv'
    OBVIOUS
  <2>1. ASSUME NEW c \in Clients, Acquire(c) \/ Release(c) PROVE HoldInv'
    BY <2>1, LeaseSteps DEF HoldInv, Filling
  <2>2. ASSUME NEW c \in Clients, Keeps(c) PROVE HoldInv'
    BY <2>2 DEF HoldInv, Keeps, GoesOn
  <2>3. CASE Tick
    BY <2>3, TickEffect DEF HoldInv
  <2>4. CASE UNCHANGED <<job, lease>>
    BY <2>4 DEF HoldInv
  <2> QED
    BY <2>1, <2>2, <2>3, <2>4, HoldingStep
<1> QED
  BY <1>1, <1>2, TypeCorrect, PTL DEF Spec

(* Whoever believes to hold a lease does, whatever expires or leaks.        *)
LEMMA LeaseInvariant == Spec => []LeaseInv
<1>1. Init => LeaseInv
  BY DEF Init, LeaseInv, Believes, NoJob
<1>2. TypeOK /\ LeaseInv /\ [Next]_vars => LeaseInv'
  <2> SUFFICES ASSUME TypeOK, LeaseInv, [Next]_vars PROVE LeaseInv'
    OBVIOUS
  <2>0. /\ job \in [Clients -> Jobs] /\ lease \in [Ids -> Leases \cup {Nothing}]
        /\ \A c \in Clients : job[c] \in Jobs /\ job[c].id \in Ids
    BY DEF TypeOK, Jobs
  <2>1. ASSUME NEW c \in Clients, Acquire(c) PROVE LeaseInv'
    <3> DEFINE i == job[c].id
    <3>1. CASE lease[i] = Nothing
      <4>1. /\ lease' = [lease EXCEPT ![i] = [owner |-> c, left |-> LeaseTtl]]
            /\ job'[c].id = i /\ job'[c].left = LeaseTtl
            /\ \A d \in Clients \ {c} : job'[d] = job[d]
        BY <2>0, <2>1, <3>1 DEF Acquire, Jobs
      <4>2. [owner |-> c, left |-> LeaseTtl] # Nothing
        BY LeaseIsSomething, TtlAssumption DEF Leases
      <4> QED
        BY <2>0, <3>1, <4>1, <4>2 DEF LeaseInv, Believes
    <3>2. CASE lease[i] # Nothing
      <4>1. /\ lease' = lease /\ job'[c].left = 0
            /\ \A d \in Clients \ {c} : job'[d] = job[d]
        BY <2>0, <2>1, <3>2 DEF Acquire, Jobs
      <4> QED
        BY <4>1 DEF LeaseInv, Believes
    <3> QED BY <3>1, <3>2
  <2>2. ASSUME NEW c \in Clients, Release(c) PROVE LeaseInv'
    <3>1. /\ job'[c].left = 0
          /\ \A d \in Clients \ {c} : job'[d] = job[d]
      BY <2>0, <2>2 DEF Release, NoJob
    <3>2. ASSUME NEW i \in Ids, lease[i] # Nothing, lease[i].owner # c
          PROVE  lease'[i] = lease[i]
      BY <2>0, <2>2, <3>2 DEF Release, Freed
    <3> QED
      BY <2>0, <3>1, <3>2 DEF LeaseInv, Believes
  <2>3. CASE Tick
    <3>1. ASSUME NEW c \in Clients
          PROVE  /\ job'[c].id = job[c].id /\ job'[c].left = Less(job[c].left)
                 /\ job'[c].holds => job[c].holds
                 /\ job[c].left \in Nat
      <4>1. job'[c] = [job[c] EXCEPT !.seen = Older(@), !.left = Less(@),
                                     !.patience = Less(@)]
        BY <2>3, <3>1 DEF Tick
      <4>2. job[c].left \in Nat
        BY <2>0, <3>1, TtlAssumption DEF Jobs
      <4>3. /\ job'[c].id = job[c].id /\ job'[c].left = Less(job[c].left)
            /\ job'[c].holds => job[c].holds
        BY <2>0, <3>1, <4>1 DEF Jobs
      <4> QED BY <4>2, <4>3
    <3>2. ASSUME NEW i \in Ids, lease[i] # Nothing, lease[i].left # 1
          PROVE  /\ lease'[i] \in Leases /\ lease'[i].owner = lease[i].owner
                 /\ lease'[i].left = Less(lease[i].left)
      <4>1. lease'[i] = [lease[i] EXCEPT !.left = Less(@)]
        BY <2>3, <3>2 DEF Tick
      <4>2. Less(lease[i].left) \in 1..LeaseTtl
        BY <2>0, <3>2, TtlAssumption DEF Leases, Less
      <4> QED
        BY <2>0, <3>2, <4>1, <4>2 DEF Leases
    <3> QED
      BY <2>0, <3>1, <3>2, LeaseIsSomething DEF LeaseInv, Believes, Less
  <2>4. ASSUME NEW c \in Clients, Keeps(c) PROVE LeaseInv'
    BY <2>4 DEF LeaseInv, Believes, Keeps, GoesOn
  <2>5. CASE UNCHANGED <<job, lease>>
    BY <2>5 DEF LeaseInv, Believes
  <2> QED
    BY <2>1, <2>2, <2>3, <2>4, <2>5, HoldingStep
<1> QED
  BY <1>1, <1>2, TypeCorrect, PTL DEF Spec

(* LeaseExclusive is an invariant for any number of clients and any time to *)
(* live, with leases that expire under their holders and leaked ones.       *)
THEOREM OneHolder == Spec => []LeaseExclusive
<1>1. TypeOK /\ LeaseInv => LeaseExclusive
  <2> SUFFICES ASSUME TypeOK, LeaseInv, NEW c \in Clients, NEW d \in Clients,
                      c # d, job[c].id = job[d].id, job[c].holds, job[d].holds
               PROVE  job[c].left = 0 \/ job[d].left = 0
    BY DEF LeaseExclusive
  <2>1. job[c].left \in Nat /\ job[d].left \in Nat
    BY TtlAssumption DEF TypeOK, Jobs
  <2> QED
    BY <2>1 DEF LeaseInv, Believes
<1> QED
  BY <1>1, LeaseInvariant, TypeCorrect, PTL

(* A lease of an abstract request.                                          *)
LeaseOf(c) == [by |-> c, of |-> job[c].id, left |-> job[c].left]

(* What changes the abstract leases is what changes a request's own.        *)
LEMMA HeldIs == Held = {LeaseOf(c) : c \in {c \in Clients : Believes(c)}}
BY DEF Held, LeaseOf, Believes

(* A request that holds no lease any more has given its own up.             *)
LEMMA HolderEnds ==
  ASSUME NEW c \in Clients, ~job'[c].holds,
         \A d \in Clients \ {c} : job'[d] = job[d]
  PROVE  Fill!GiveUp(c)
<1>1. \A d \in Clients \ {c} : (Believes(d)' <=> Believes(d)) /\ LeaseOf(d)' = LeaseOf(d)
  BY DEF Believes, LeaseOf
<1>2. ~Believes(c)'
  BY DEF Believes
<1>3. \A d \in Clients : LeaseOf(d).by = d
  BY DEF LeaseOf
<1>4. Held' = {LeaseOf(d)' : d \in {d \in Clients : Believes(d)'}}
  BY DEF Held, LeaseOf, Believes
<1>5. Held' = {h \in Held : h.by # c}
  <2>1. ASSUME NEW h \in Held' PROVE h \in Held /\ h.by # c
    <3>1. PICK d \in Clients : Believes(d)' /\ h = LeaseOf(d)'
      BY <1>4
    <3>2. d # c /\ Believes(d) /\ h = LeaseOf(d)
      BY <1>1, <1>2, <3>1
    <3> QED
      BY <1>3, <3>2, HeldIs
  <2>2. ASSUME NEW h \in Held, h.by # c PROVE h \in Held'
    <3>1. PICK d \in Clients : Believes(d) /\ h = LeaseOf(d)
      BY HeldIs
    <3>2. d # c
      BY <1>3, <2>2, <3>1
    <3> QED
      BY <1>1, <1>4, <3>1, <3>2
  <2> QED
    BY <2>1, <2>2
<1> QED
  BY <1>5 DEF Fill!GiveUp

(* The cache implements FillLease: the keys cache:lease:* are exclusive and *)
(* expire, but a request can neither take what another one counts on nor    *)
(* end it, although it may outlive its lease, release late or not at all.   *)
THEOREM ImplementsLease == Spec => FillSpec
<1>1. Init => Fill!Init
  BY DEF Init, Fill!Init, Held, NoJob
<1>2. TypeOK /\ HoldInv /\ LeaseInv /\ [Next]_vars => [Fill!Next]_Held
  <2> SUFFICES ASSUME TypeOK, HoldInv, LeaseInv, [Next]_vars
               PROVE  Fill!Next \/ Held' = Held
    OBVIOUS
  <2>0. \A c \in Clients : job[c] \in Jobs /\ job[c].id \in Ids
    BY DEF TypeOK, Jobs
  <2>h. Held' = {LeaseOf(d)' : d \in {d \in Clients : Believes(d)'}}
    BY DEF Held, LeaseOf, Believes
  <2>1. ASSUME NEW c \in Clients, Acquire(c), lease[job[c].id] = Nothing
        PROVE  Fill!Take(c, job[c].id)
    <3>1. /\ \A d \in Clients \ {c} : job'[d] = job[d]
          /\ job'[c].holds /\ job'[c].left = LeaseTtl /\ job'[c].id = job[c].id
      BY <2>1, LeaseSteps
    <3>2. ~Believes(c)
      BY <2>1 DEF Acquire, At, HoldInv, Filling, Believes
    <3>3. \A d \in Clients : Believes(d) => job[d].id # job[c].id
      BY <2>1 DEF LeaseInv
    <3>4. \A d \in Clients \ {c} : (Believes(d)' <=> Believes(d)) /\ LeaseOf(d)' = LeaseOf(d)
      BY <3>1 DEF Believes, LeaseOf
    <3>5. Believes(c)' /\ LeaseOf(c)' = [by |-> c, of |-> job[c].id, left |-> LeaseTtl]
      BY <3>1, TtlAssumption DEF Believes, LeaseOf
    <3>6. \A h \in Held : h.by # c /\ h.of # job[c].id
      BY <3>2, <3>3 DEF Held, Believes
    <3>7. Held' = Held \cup {[by |-> c, of |-> job[c].id, left |-> LeaseTtl]}
      <4>1. ASSUME NEW h \in Held', h # LeaseOf(c)' PROVE h \in Held
        <5>1. PICK d \in Clients : Believes(d)' /\ h = LeaseOf(d)'
          BY <2>h
        <5> QED
          BY <3>4, <4>1, <5>1, HeldIs
      <4>2. ASSUME NEW h \in Held PROVE h \in Held'
        <5>1. PICK d \in Clients : Believes(d) /\ h = LeaseOf(d)
          BY HeldIs
        <5> QED
          BY <2>h, <3>2, <3>4, <5>1
      <4>3. LeaseOf(c)' \in Held'
        BY <2>h, <3>5
      <4> QED
        BY <3>5, <4>1, <4>2, <4>3
    <3> QED
      BY <3>6, <3>7 DEF Fill!Take
  <2>2. ASSUME NEW c \in Clients, Acquire(c), lease[job[c].id] # Nothing
        PROVE  Fill!GiveUp(c)
    BY <2>2, LeaseSteps, HolderEnds
  <2>3. ASSUME NEW c \in Clients, Release(c) PROVE Fill!GiveUp(c)
    BY <2>3, LeaseSteps, HolderEnds
  <2>4. ASSUME NEW c \in Clients, Keeps(c) PROVE Fill!GiveUp(c) \/ Held' = Held
    <3>1. CASE ~job'[c].holds
      BY <2>4, <3>1, HolderEnds DEF Keeps
    <3>2. CASE job'[c].holds
      <4>1. GoesOn(c) /\ \A d \in Clients \ {c} : job'[d] = job[d]
        BY <2>4, <3>2 DEF Keeps
      <4>2. \A d \in Clients : (Believes(d)' <=> Believes(d)) /\ LeaseOf(d)' = LeaseOf(d)
        BY <3>2, <4>1 DEF GoesOn, Believes, LeaseOf
      <4> QED
        BY <2>h, <4>2, HeldIs
    <3> QED
      BY <3>1, <3>2
  <2>5. CASE Tick
    <3>1. \A c \in Clients :
            /\ job'[c].id = job[c].id /\ job'[c].left = Less(job[c].left)
            /\ job'[c].holds = job[c].holds /\ job[c].left \in Nat
      BY <2>5, TickEffect
    <3>2. \A c \in Clients :
            /\ Believes(c)' <=> (Believes(c) /\ job[c].left > 1)
            /\ Believes(c) => LeaseOf(c)' = [LeaseOf(c) EXCEPT !.left = @ - 1]
            /\ LeaseOf(c).left = job[c].left
      BY <3>1 DEF Believes, LeaseOf, Less
    <3>3. ASSUME NEW h \in Held'
          PROVE  h \in {[g EXCEPT !.left = @ - 1] : g \in {g \in Held : g.left > 1}}
      <4>1. PICK c \in Clients : Believes(c)' /\ h = LeaseOf(c)'
        BY <2>h
      <4>2. LeaseOf(c) \in Held /\ LeaseOf(c).left > 1
        BY <3>2, <4>1, HeldIs
      <4> QED
        BY <3>2, <4>1, <4>2
    <3>4. ASSUME NEW g \in Held, g.left > 1 PROVE [g EXCEPT !.left = @ - 1] \in Held'
      <4>1. PICK c \in Clients : Believes(c) /\ g = LeaseOf(c)
        BY HeldIs
      <4> QED
        BY <2>h, <3>2, <3>4, <4>1
    <3>5. Held' = {[g EXCEPT !.left = @ - 1] : g \in {g \in Held : g.left > 1}}
      BY <3>3, <3>4
    <3>6. Fill!Tick
      BY <3>5 DEF Fill!Tick
    <3> QED
      BY <3>6 DEF Fill!Next
  <2>6. CASE UNCHANGED <<job, lease>>
    BY <2>6 DEF Held
  <2> QED
    BY <2>0, <2>1, <2>2, <2>3, <2>4, <2>5, <2>6, HoldingStep DEF Fill!Next
<1> QED
  BY <1>1, <1>2, TypeCorrect, HoldInvariant, LeaseInvariant, PTL DEF Spec, FillSpec, Fill!Spec
=============================================================================
