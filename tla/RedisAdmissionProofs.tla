------------------------ MODULE RedisAdmissionProofs ------------------------
(***************************************************************************)
(* Proofs about RedisAdmission for every set of workers, tasks, users and  *)
(* request ids, every pair of limits and every pair of times to live: its  *)
(* types, that Redis never counts more than the limits allow, that until a *)
(* query outlives its lease the three places that record a slot agree and  *)
(* a request runs once, and that the controller implements the slot pool.  *)
(***************************************************************************)
EXTENDS RedisAdmission, FiniteSetTheorems, TLAPS

(* TypeOK is an invariant: scores and times to live stay within theirs, and *)
(* only a call between acquire and release owns a lease.                    *)
THEOREM TypeCorrect == Spec => []TypeOK
<1> USE TasksAssumption, TtlAssumption
<1>1. Init => TypeOK
  <2> SUFFICES ASSUME Init PROVE TypeOK
    OBVIOUS
  <2>1. overran \in BOOLEAN /\ accepting \in [Workers -> BOOLEAN]
        /\ owns \in [Tasks -> BOOLEAN] /\ Holders = {}
    BY Zenon DEF Init, Holders
  <2> QED
    BY <2>1 DEF Init, TypeOK, PCs, Scores, Absent
<1>2. TypeOK /\ [Next]_vars => TypeOK'
  <2> SUFFICES ASSUME TypeOK, [Next]_vars PROVE TypeOK'
    OBVIOUS
  <2> USE DEF TypeOK, PCs, Owning, Holders, Scores, Absent, Forever, Goto, slots
  <2>1. ASSUME NEW t \in Tasks, Register(t) \/ RegisterLost(t) PROVE TypeOK'
    <3>1. PICK l \in PCs : RegisterAs(t, l)
      BY <2>1 DEF Register, RegisterLost
    <3> QED
      BY <3>1 DEF RegisterAs
  <2>2. ASSUME NEW t \in Tasks, RegisterDuplicate(t) PROVE TypeOK'
    BY <2>2 DEF RegisterDuplicate
  <2>3. ASSUME NEW t \in Tasks, AcquireLua(t)
        PROVE /\ all' \in [Requests -> Scores]
              /\ ofUser' \in [Users -> [Requests -> Scores]]
              /\ leaseKey' \in [Requests -> 0..LeaseTtl]
    BY <2>3 DEF AcquireLua, Pruned
  <2>4. ASSUME NEW t \in Tasks, Acquire(t) PROVE TypeOK'
    BY <2>3, <2>4 DEF Acquire
  <2>5. ASSUME NEW t \in Tasks, AcquireLost(t) PROVE TypeOK'
    BY <2>3, <2>5 DEF AcquireLost
  <2>6. ASSUME NEW t \in Tasks, PollRefused(t) PROVE TypeOK'
    BY <2>6, ZenonT(40) DEF PollRefused, Pruned
  <2>7. ASSUME NEW t \in Tasks, QueryEnds(t) PROVE TypeOK'
    BY <2>7 DEF QueryEnds
  <2>8. ASSUME NEW t \in Tasks, ReturnsUnreleased(t) PROVE TypeOK'
    BY <2>8 DEF ReturnsUnreleased
  <2>9. ASSUME NEW t \in Tasks, CompleteExists(t) \/ CompleteSet(t)
        PROVE  TypeOK'
    BY <2>9, ZenonT(40) DEF CompleteExists, CompleteSet, AfterComplete
  <2>10. ASSUME NEW t \in Tasks, Leave(t) PROVE TypeOK'
    BY <2>10, SMTT(20) DEF Leave, ReleaseLua
  <2>11. ASSUME NEW t \in Tasks, CallFails(t) PROVE TypeOK'
    BY <2>11 DEF CallFails
  <2>12. ASSUME NEW w \in Workers, BeginShutdown(w) PROVE TypeOK'
    BY <2>12 DEF BeginShutdown
  <2>13. ASSUME NEW w \in Workers, Restart(w) PROVE TypeOK'
    BY <2>13 DEF Restart
  <2>14. CASE Tick
    BY <2>14 DEF Tick, Less
  <2>15. CASE UNCHANGED vars
    BY <2>15 DEF vars
  <2> QED
    BY <2>1, <2>2, <2>4, <2>5, <2>6, <2>7, <2>8, <2>9, <2>10, <2>11, <2>12,
       <2>13, <2>14, <2>15 DEF Next
<1> QED
  BY <1>1, <1>2, PTL DEF Spec

-----------------------------------------------------------------------------
(* What one step does to the slots Redis counts and to their owners.        *)
Granted(t) ==
  /\ AcquireLua(t)
  /\ t \notin Holders
  /\ Holders' \in {Holders, Holders \cup {t}}
  /\ overran' = overran

Freed(t) ==
  /\ t \in Holders
  /\ ReleaseLua(t)
  /\ Holders' = Holders \ {t}
  /\ overran' = overran

PrunedFor(u) ==
  /\ all' = Pruned(all)
  /\ ofUser' = [ofUser EXCEPT ![u] = Pruned(@)]
  /\ UNCHANGED <<leaseKey, Holders, overran>>

Dropped ==
  /\ Holders' \in SUBSET Holders
  /\ UNCHANGED <<slots, overran>>

Elapsed == Tick /\ Holders' = Holders

(* Who runs a query, or is about to give a slot back, owns it. *)
RunnersOwn == \A t \in Tasks : pc[t] \in {"holding", "leaving"} => t \in Holders

LEMMA StepEffect ==
  ASSUME TypeOK, RunnersOwn, [Next]_vars
  PROVE  /\ \/ \E t \in Tasks : Granted(t) \/ Freed(t) \/ PrunedFor(UserOf[t])
            \/ Dropped
            \/ Elapsed
         /\ RunnersOwn'
<1> USE TasksAssumption DEF TypeOK, PCs, Owning, Goto, Holders, RunnersOwn
<1>1. ASSUME NEW t \in Tasks, Register(t) \/ RegisterLost(t)
      PROVE  Dropped /\ RunnersOwn'
  <2>1. PICK l \in {"polling", "ending", "left"} : RegisterAs(t, l)
    BY <1>1 DEF Register, RegisterLost
  <2> QED BY <2>1 DEF RegisterAs, Dropped, slots
<1>2. ASSUME NEW t \in Tasks, RegisterDuplicate(t)
      PROVE  Dropped /\ RunnersOwn'
  BY <1>2 DEF RegisterDuplicate, Dropped, slots
<1>3. ASSUME NEW t \in Tasks, Acquire(t) PROVE Granted(t) /\ RunnersOwn'
  BY <1>3, SMTT(20) DEF Acquire, Granted
<1>4. ASSUME NEW t \in Tasks, AcquireLost(t) PROVE Granted(t) /\ RunnersOwn'
  BY <1>4, SMTT(20) DEF AcquireLost, Granted
<1>5. ASSUME NEW t \in Tasks, PollRefused(t)
      PROVE  PrunedFor(UserOf[t]) /\ RunnersOwn'
  BY <1>5 DEF PollRefused, PrunedFor
<1>6. ASSUME NEW t \in Tasks, QueryEnds(t) PROVE Dropped /\ RunnersOwn'
  BY <1>6 DEF QueryEnds, Dropped, slots
<1>7. ASSUME NEW t \in Tasks, ReturnsUnreleased(t)
      PROVE  Dropped /\ RunnersOwn'
  BY <1>7 DEF ReturnsUnreleased, Dropped, slots
<1>8. ASSUME NEW t \in Tasks, CompleteExists(t) \/ CompleteSet(t)
      PROVE  Dropped /\ RunnersOwn'
  BY <1>8 DEF CompleteExists, CompleteSet, AfterComplete, Dropped, slots
<1>9. ASSUME NEW t \in Tasks, Leave(t) PROVE Freed(t) /\ RunnersOwn'
  BY <1>9 DEF Leave, Freed
<1>10. ASSUME NEW t \in Tasks, CallFails(t) PROVE Dropped /\ RunnersOwn'
  BY <1>10 DEF CallFails, Dropped, slots
<1>11. ASSUME NEW w \in Workers, BeginShutdown(w)
       PROVE  Dropped /\ RunnersOwn'
  BY <1>11 DEF BeginShutdown, Dropped, slots
<1>12. ASSUME NEW w \in Workers, Restart(w) PROVE Dropped /\ RunnersOwn'
  BY <1>12 DEF Restart, Dropped, slots
<1>13. CASE Tick
  BY <1>13 DEF Tick, Elapsed
<1>14. CASE UNCHANGED vars
  BY <1>14 DEF vars, slots, Dropped
<1> QED
  BY <1>1, <1>2, <1>3, <1>4, <1>5, <1>6, <1>7, <1>8, <1>9, <1>10, <1>11,
     <1>12, <1>13, <1>14 DEF Next

-----------------------------------------------------------------------------
(* The strengthening of SlotsAgree and OneQueryPerRequest: whoever holds a  *)
(* slot is counted, two holders never share a member, and the score of a    *)
(* member that is counted is the same in the three places, in the set of    *)
(* one user.                                                                *)
OwnersCounted ==
  \A t \in Holders : /\ all[RequestOf[t]] > 0
                     /\ ofUser[UserOf[t]][RequestOf[t]] > 0

OwnersDiffer == \A s, t \in Holders : RequestOf[s] = RequestOf[t] => s = t

LeaseMatches == \A m \in Requests : all[m] > 0 \/ leaseKey[m] > 0
                                      => all[m] = leaseKey[m]

UserMatches ==
  \A u \in Users, m \in Requests : ofUser[u][m] > 0 => ofUser[u][m] = all[m]

UserExists ==
  \A m \in Requests : all[m] > 0 => \E u \in Users : ofUser[u][m] > 0

UserUnique ==
  \A u, v \in Users, m \in Requests :
    ofUser[u][m] > 0 /\ ofUser[v][m] > 0 => u = v

Agreement ==
  /\ OwnersCounted /\ OwnersDiffer
  /\ LeaseMatches /\ UserMatches /\ UserExists /\ UserUnique

LEMMA AgreementStep ==
  ASSUME TypeOK, RunnersOwn, Agreement, [Next]_vars, ~overran'
  PROVE  Agreement'
<1> USE TasksAssumption, TtlAssumption DEF Scores, Absent
<1>t. /\ Holders \in SUBSET Tasks
      /\ all \in [Requests -> Scores]
      /\ ofUser \in [Users -> [Requests -> Scores]]
      /\ leaseKey \in [Requests -> 0..LeaseTtl]
  BY DEF TypeOK, Holders
<1>1. ASSUME NEW t \in Tasks, Granted(t) PROVE Agreement'
  <2> DEFINE r == RequestOf[t]
             u == UserOf[t]
  <2>1. /\ r \in Requests /\ u \in Users
        /\ leaseKey[r] = 0 /\ ~(all[r] > 0)
        /\ \A v \in Users : ~(ofUser[v][r] > 0)
    BY <1>1, <1>t DEF Granted, AcquireLua, Duplicate, Agreement, LeaseMatches,
       UserMatches
  <2>2. \A m \in Requests :
          all'[m] = IF m = r THEN LeaseTtl ELSE IF all[m] <= 0 THEN Absent
                                                ELSE all[m]
    BY <1>1, <1>t, <2>1 DEF Granted, AcquireLua, Pruned
  <2>3. \A v \in Users : \A m \in Requests :
          ofUser'[v][m] = IF v # u THEN ofUser[v][m]
                          ELSE IF m = r THEN LeaseTtl
                          ELSE IF ofUser[u][m] <= 0 THEN Absent
                          ELSE ofUser[u][m]
    BY <1>1, <1>t, <2>1 DEF Granted, AcquireLua, Pruned
  <2>4. \A m \in Requests :
          leaseKey'[m] = IF m = r THEN LeaseTtl ELSE leaseKey[m]
    BY <1>1, <1>t, <2>1 DEF Granted, AcquireLua
  <2>5. \A s \in Holders : RequestOf[s] # r /\ RequestOf[s] \in Requests
                           /\ UserOf[s] \in Users
    BY <1>t, <2>1 DEF Agreement, OwnersCounted
  <2>6. Holders' \subseteq Holders \cup {t}
    BY <1>1 DEF Granted
  <2>7. OwnersCounted'
    <3>1. all'[r] > 0 /\ ofUser'[u][r] > 0
      BY <2>1, <2>2, <2>3
    <3>2. ASSUME NEW s \in Holders
          PROVE  all'[RequestOf[s]] > 0 /\ ofUser'[UserOf[s]][RequestOf[s]] > 0
      <4>1. all[RequestOf[s]] > 0 /\ ofUser[UserOf[s]][RequestOf[s]] > 0
        BY DEF Agreement, OwnersCounted
      <4>2. all'[RequestOf[s]] = all[RequestOf[s]]
        BY <4>1, <1>t, <2>2, <2>5
      <4>3. ofUser'[UserOf[s]][RequestOf[s]] = ofUser[UserOf[s]][RequestOf[s]]
        BY <4>1, <1>t, <2>3, <2>5
      <4> QED BY <4>1, <4>2, <4>3
    <3> QED BY <2>6, <3>1, <3>2 DEF OwnersCounted
  <2>8. OwnersDiffer'
    BY <2>5, <2>6 DEF Agreement, OwnersDiffer
  <2>9. LeaseMatches'
    BY <1>t, <2>2, <2>4 DEF Agreement, LeaseMatches
  <2>10. UserMatches'
    BY <1>t, <2>1, <2>2, <2>3 DEF Agreement, UserMatches
  <2>11. UserExists'
    <3> SUFFICES ASSUME NEW m \in Requests, all'[m] > 0
                 PROVE  \E v \in Users : ofUser'[v][m] > 0
      BY DEF UserExists
    <3>1. CASE m = r
      BY <3>1, <2>1, <2>3
    <3>2. CASE m # r
      <4>1. PICK v \in Users : ofUser[v][m] > 0
        BY <3>2, <1>t, <2>2 DEF Agreement, UserExists
      <4>2. ofUser'[v][m] = ofUser[v][m]
        BY <3>2, <4>1, <1>t, <2>3
      <4> QED BY <4>1, <4>2
    <3> QED BY <3>1, <3>2
  <2>12. UserUnique'
    <3> SUFFICES ASSUME NEW v \in Users, NEW w \in Users, NEW m \in Requests,
                        ofUser'[v][m] > 0, ofUser'[w][m] > 0
                 PROVE  v = w
      BY DEF UserUnique
    <3>1. CASE m = r
      BY <3>1, <2>1, <2>3
    <3>2. CASE m # r
      <4>1. ofUser[v][m] > 0 /\ ofUser[w][m] > 0
        BY <3>2, <1>t, <2>3
      <4> QED BY <4>1 DEF Agreement, UserUnique
    <3> QED BY <3>1, <3>2
  <2> QED BY <2>7, <2>8, <2>9, <2>10, <2>11, <2>12 DEF Agreement
<1>2. ASSUME NEW t \in Tasks, Freed(t) PROVE Agreement'
  <2> DEFINE r == RequestOf[t]
             u == UserOf[t]
  <2>1. /\ r \in Requests /\ u \in Users
        /\ ofUser[u][r] > 0
        /\ \A v \in Users : v # u => ~(ofUser[v][r] > 0)
    BY <1>2, <1>t DEF Freed, Agreement, OwnersCounted, UserUnique
  <2>2. \A m \in Requests : all'[m] = IF m = r THEN Absent ELSE all[m]
    BY <1>2, <1>t, <2>1 DEF Freed, ReleaseLua
  <2>3. \A v \in Users : \A m \in Requests :
          ofUser'[v][m] = IF v = u /\ m = r THEN Absent ELSE ofUser[v][m]
    BY <1>2, <1>t, <2>1 DEF Freed, ReleaseLua
  <2>4. \A m \in Requests :
          leaseKey'[m] = IF m = r THEN 0 ELSE leaseKey[m]
    BY <1>2, <1>t, <2>1 DEF Freed, ReleaseLua
  <2>5. Holders' \subseteq Holders /\ \A s \in Holders' : RequestOf[s] # r
    BY <1>2 DEF Freed, Agreement, OwnersDiffer
  <2>6. OwnersCounted'
    BY <1>t, <2>2, <2>3, <2>5 DEF Agreement, OwnersCounted
  <2>7. OwnersDiffer'
    BY <2>5 DEF Agreement, OwnersDiffer
  <2>8. LeaseMatches'
    BY <1>t, <2>2, <2>4 DEF Agreement, LeaseMatches
  <2>9. UserMatches'
    BY <1>t, <2>1, <2>2, <2>3 DEF Agreement, UserMatches
  <2>10. UserExists'
    <3> SUFFICES ASSUME NEW m \in Requests, all'[m] > 0
                 PROVE  \E v \in Users : ofUser'[v][m] > 0
      BY DEF UserExists
    <3>1. m # r /\ all[m] > 0
      BY <2>2
    <3>2. PICK v \in Users : ofUser[v][m] > 0
      BY <3>1 DEF Agreement, UserExists
    <3> QED BY <3>1, <3>2, <2>3
  <2>11. UserUnique'
    BY <1>t, <2>3 DEF Agreement, UserUnique
  <2> QED BY <2>6, <2>7, <2>8, <2>9, <2>10, <2>11 DEF Agreement
<1>3. ASSUME NEW u \in Users, PrunedFor(u) PROVE Agreement'
  <2>1. \A m \in Requests :
          all'[m] = IF all[m] <= 0 THEN Absent ELSE all[m]
    BY <1>3 DEF PrunedFor, Pruned
  <2>2. \A v \in Users : \A m \in Requests :
          ofUser'[v][m] = IF v = u /\ ofUser[v][m] <= 0 THEN Absent
                          ELSE ofUser[v][m]
    BY <1>3, <1>t DEF PrunedFor, Pruned
  <2>3. Holders' = Holders /\ leaseKey' = leaseKey
    BY <1>3 DEF PrunedFor
  <2>4. OwnersCounted' /\ OwnersDiffer'
    BY <1>t, <2>1, <2>2, <2>3 DEF Agreement, OwnersCounted, OwnersDiffer
  <2>5. LeaseMatches'
    BY <1>t, <2>1, <2>3 DEF Agreement, LeaseMatches
  <2>6. UserMatches'
    BY <1>t, <2>1, <2>2 DEF Agreement, UserMatches
  <2>7. UserExists'
    <3> SUFFICES ASSUME NEW m \in Requests, all'[m] > 0
                 PROVE  \E v \in Users : ofUser'[v][m] > 0
      BY DEF UserExists
    <3>1. PICK v \in Users : ofUser[v][m] > 0
      BY <2>1 DEF Agreement, UserExists
    <3>2. ofUser'[v][m] = ofUser[v][m]
      BY <3>1, <1>t, <2>2
    <3> QED BY <3>1, <3>2
  <2>8. UserUnique'
    BY <1>t, <2>2 DEF Agreement, UserUnique
  <2> QED BY <2>4, <2>5, <2>6, <2>7, <2>8 DEF Agreement
<1>4. CASE Dropped
  BY <1>4 DEF Dropped, slots, Agreement, OwnersCounted, OwnersDiffer,
     LeaseMatches, UserMatches, UserExists, UserUnique
<1>5. CASE Elapsed
  <2>1. \A m \in Requests : /\ all'[m] = Less(all[m])
                            /\ leaseKey'[m] = Less(leaseKey[m])
                            /\ \A u \in Users :
                                 ofUser'[u][m] = Less(ofUser[u][m])
    BY <1>5 DEF Elapsed, Tick
  <2>2. Holders' = Holders /\ \A t \in Holders : ~(all[RequestOf[t]] <= 1)
    BY <1>5 DEF Elapsed, Tick
  <2>3. \A t \in Holders : ofUser[UserOf[t]][RequestOf[t]] = all[RequestOf[t]]
    BY <1>t DEF Agreement, OwnersCounted, UserMatches
  <2>4. OwnersCounted' /\ OwnersDiffer'
    BY <1>t, <2>1, <2>2, <2>3 DEF Less, Agreement, OwnersCounted, OwnersDiffer
  <2>5. LeaseMatches'
    BY <1>t, <2>1 DEF Less, Agreement, LeaseMatches
  <2>6. UserMatches'
    BY <1>t, <2>1 DEF Less, Agreement, UserMatches
  <2>7. UserExists'
    <3> SUFFICES ASSUME NEW m \in Requests, all'[m] > 0
                 PROVE  \E v \in Users : ofUser'[v][m] > 0
      BY DEF UserExists
    <3>1. all[m] > 0
      BY <1>t, <2>1 DEF Less
    <3>2. PICK v \in Users : ofUser[v][m] > 0
      BY <3>1 DEF Agreement, UserExists
    <3>3. ofUser[v][m] = all[m]
      BY <3>2 DEF Agreement, UserMatches
    <3> QED BY <3>3, <2>1
  <2>8. UserUnique'
    BY <1>t, <2>1 DEF Less, Agreement, UserUnique
  <2> QED BY <2>4, <2>5, <2>6, <2>7, <2>8 DEF Agreement
<1> QED
  BY <1>1, <1>2, <1>3, <1>4, <1>5, StepEffect

(* The inductive invariant of the agreement.                                *)
AgreementInv == RunnersOwn /\ (~overran => Agreement)

LEMMA AgreementHolds == Spec => []AgreementInv
<1>1. Init => AgreementInv
  <2> SUFFICES ASSUME Init PROVE RunnersOwn /\ Agreement
    BY DEF AgreementInv
  <2>1. Holders = {}
    BY DEF Init, Holders
  <2>2. RunnersOwn
    BY DEF Init, RunnersOwn
  <2>3. LeaseMatches /\ UserMatches /\ UserExists /\ UserUnique
    BY DEF Init, Absent, LeaseMatches, UserMatches, UserExists, UserUnique
  <2> QED
    BY <2>1, <2>2, <2>3 DEF Agreement, OwnersCounted, OwnersDiffer
<1>2. TypeOK /\ AgreementInv /\ [Next]_vars => AgreementInv'
  <2> SUFFICES ASSUME TypeOK, AgreementInv, [Next]_vars PROVE AgreementInv'
    OBVIOUS
  <2>1. RunnersOwn'
    BY StepEffect DEF AgreementInv
  <2>2. ~overran' => ~overran
    BY Zenon, StepEffect DEF AgreementInv, Granted, Freed, PrunedFor, Dropped,
       Elapsed, Tick
  <2> QED
    BY <2>1, <2>2, AgreementStep DEF AgreementInv
<1> QED
  BY <1>1, <1>2, TypeCorrect, PTL DEF Spec

(* SlotsAgree is an invariant: until a query outlives its lease the three   *)
(* places that record a slot agree, and whoever holds one is in all three.  *)
THEOREM PlacesAgree == Spec => []SlotsAgree
<1>1. TypeOK /\ AgreementInv => SlotsAgree
  <2> SUFFICES ASSUME TypeOK, AgreementInv, ~overran PROVE SlotsAgree
    BY DEF SlotsAgree
  <2>1. Agreement
    BY DEF AgreementInv
  <2>2. ASSUME NEW m \in Requests PROVE all[m] > 0 <=> leaseKey[m] > 0
    BY <2>1 DEF Agreement, LeaseMatches
  <2>3. ASSUME NEW m \in Requests
        PROVE  all[m] > 0 <=> \E u \in Users : ofUser[u][m] > 0
    <3>1. ASSUME NEW u \in Users, ofUser[u][m] > 0 PROVE all[m] > 0
      BY <2>1, <3>1 DEF Agreement, UserMatches
    <3>2. all[m] > 0 => \E u \in Users : ofUser[u][m] > 0
      BY <2>1 DEF Agreement, UserExists
    <3> QED BY <3>1, <3>2
  <2> QED BY <2>1, <2>2, <2>3 DEF SlotsAgree, Agreement, OwnersCounted
<1> QED
  BY <1>1, TypeCorrect, AgreementHolds, PTL

(* OneQueryPerRequest is an invariant: the lease key, not the dedup key,    *)
(* keeps a retried request from running beside the first one.               *)
THEOREM RequestRunsOnce == Spec => []OneQueryPerRequest
<1>1. AgreementInv => OneQueryPerRequest
  BY DEF AgreementInv, Agreement, OwnersDiffer, OneQueryPerRequest
<1> QED
  BY <1>1, AgreementHolds, PTL

-----------------------------------------------------------------------------
(* The members of a sorted set whose score is still in the future: those    *)
(* that ZCARD counts once the set is pruned.                                *)
Counted(z) == {m \in Requests : z[m] > 0}

LEMMA CountedFinite ==
  \A z : IsFiniteSet(Counted(z)) /\ Cardinality(Counted(z)) \in Nat
<1> TAKE z
<1>1. Counted(z) \in SUBSET Requests
  BY DEF Counted
<1>2. IsFiniteSet(Counted(z))
  BY <1>1, TasksAssumption, FS_Subset
<1> QED BY <1>2, FS_CardinalityType

LEMMA ZCardCounts ==
  ASSUME NEW z \in [Requests -> Scores]
  PROVE  ZCard(Pruned(z)) = Cardinality(Counted(z))
<1>1. \A m \in Requests : Pruned(z)[m] # Absent <=> z[m] > 0
  BY TtlAssumption DEF Pruned, Scores, Absent
<1>2. {m \in Requests : Pruned(z)[m] # Absent} = Counted(z)
  BY <1>1 DEF Counted
<1> QED BY <1>2 DEF ZCard

LEMMA FewerCounted ==
  ASSUME NEW y, NEW z, \A m \in Requests : z[m] > 0 => y[m] > 0
  PROVE  Cardinality(Counted(z)) <= Cardinality(Counted(y))
<1>1. Counted(z) \in SUBSET Counted(y)
  BY DEF Counted
<1> QED BY <1>1, CountedFinite, FS_Subset

LEMMA OneMoreCounted ==
  ASSUME NEW y, NEW z, NEW r \in Requests,
         \A m \in Requests \ {r} : z[m] > 0 => y[m] > 0
  PROVE  Cardinality(Counted(z)) <= Cardinality(Counted(y)) + 1
<1>1. Counted(z) \in SUBSET (Counted(y) \cup {r})
  BY DEF Counted
<1>2. /\ IsFiniteSet(Counted(y) \cup {r})
      /\ Cardinality(Counted(y) \cup {r}) <= Cardinality(Counted(y)) + 1
  <2>1. IsFiniteSet(Counted(y)) /\ Cardinality(Counted(y)) \in Nat
    BY CountedFinite
  <2>2. /\ IsFiniteSet(Counted(y) \cup {r})
        /\ Cardinality(Counted(y) \cup {r}) =
             IF r \in Counted(y) THEN Cardinality(Counted(y))
             ELSE Cardinality(Counted(y)) + 1
    BY <2>1, FS_AddElement
  <2> QED BY <2>1, <2>2
<1>3. Cardinality(Counted(z)) <= Cardinality(Counted(y) \cup {r})
  BY <1>1, <1>2, FS_Subset
<1>4. Cardinality(Counted(y) \cup {r}) \in Nat
  BY <1>2, FS_CardinalityType
<1> QED BY <1>2, <1>3, <1>4, CountedFinite

(* The strengthening of LimitRespected: Redis never counts more than the    *)
(* limits allow, whether or not a query outlives its lease.                 *)
CountsBounded ==
  /\ Cardinality(Counted(all)) <= MaxGlobal
  /\ \A u \in Users : Cardinality(Counted(ofUser[u])) <= MaxPerUser

LEMMA RoomMeans ==
  ASSUME TypeOK, NEW t \in Tasks, HasRoom(t)
  PROVE  /\ Cardinality(Counted(all)) < MaxGlobal
         /\ Cardinality(Counted(ofUser[UserOf[t]])) < MaxPerUser
<1>1. all \in [Requests -> Scores] /\ ofUser[UserOf[t]] \in [Requests -> Scores]
  BY TasksAssumption DEF TypeOK
<1>2. /\ ZCard(Pruned(all)) = Cardinality(Counted(all))
      /\ ZCard(Pruned(ofUser[UserOf[t]]))
           = Cardinality(Counted(ofUser[UserOf[t]]))
  BY <1>1, ZCardCounts
<1> QED BY <1>2 DEF HasRoom

LEMMA CountsStep ==
  ASSUME TypeOK, RunnersOwn, CountsBounded, [Next]_vars
  PROVE  CountsBounded'
<1> USE TasksAssumption, LimitsAssumption, TtlAssumption DEF Scores, Absent
<1>t. /\ all \in [Requests -> Scores]
      /\ ofUser \in [Users -> [Requests -> Scores]]
  BY DEF TypeOK
<1>1. ASSUME \A m \in Requests : all'[m] > 0 => all[m] > 0,
             \A u \in Users, m \in Requests :
               ofUser'[u][m] > 0 => ofUser[u][m] > 0
      PROVE  CountsBounded'
  <2>1. Cardinality(Counted(all')) <= Cardinality(Counted(all))
    BY <1>1, FewerCounted
  <2>2. ASSUME NEW u \in Users
        PROVE  Cardinality(Counted(ofUser'[u])) <= Cardinality(Counted(ofUser[u]))
    BY <1>1, FewerCounted
  <2>3. Cardinality(Counted(all')) <= MaxGlobal
    BY <2>1, CountedFinite DEF CountsBounded
  <2>4. ASSUME NEW u \in Users
        PROVE  Cardinality(Counted(ofUser'[u])) <= MaxPerUser
    BY <2>2, CountedFinite DEF CountsBounded
  <2> QED BY <2>3, <2>4 DEF CountsBounded
<1>2. ASSUME NEW t \in Tasks, Granted(t) PROVE CountsBounded'
  <2> DEFINE r == RequestOf[t]
             u == UserOf[t]
  <2>1. r \in Requests /\ u \in Users
    OBVIOUS
  <2>2. /\ Cardinality(Counted(all)) < MaxGlobal
        /\ Cardinality(Counted(ofUser[u])) < MaxPerUser
    BY <1>2, RoomMeans DEF Granted, AcquireLua
  <2>3. Cardinality(Counted(all')) <= MaxGlobal
    <3>1. \A m \in Requests \ {r} : all'[m] > 0 => all[m] > 0
      BY <1>2, <1>t, <2>1 DEF Granted, AcquireLua, Pruned
    <3>2. Cardinality(Counted(all')) <= Cardinality(Counted(all)) + 1
      BY <2>1, <3>1, OneMoreCounted
    <3> QED BY <2>2, <3>2, CountedFinite
  <2>4. ASSUME NEW v \in Users
        PROVE  Cardinality(Counted(ofUser'[v])) <= MaxPerUser
    <3>1. CASE v = u
      <4>1. \A m \in Requests \ {r} : ofUser'[u][m] > 0 => ofUser[u][m] > 0
        BY <1>2, <1>t, <2>1 DEF Granted, AcquireLua, Pruned
      <4>2. Cardinality(Counted(ofUser'[u]))
              <= Cardinality(Counted(ofUser[u])) + 1
        BY <2>1, <4>1, OneMoreCounted
      <4> QED BY <2>2, <3>1, <4>2, CountedFinite
    <3>2. CASE v # u
      <4>1. ofUser'[v] = ofUser[v]
        BY <1>2, <1>t, <3>2 DEF Granted, AcquireLua
      <4> QED BY <4>1 DEF CountsBounded
    <3> QED BY <3>1, <3>2
  <2> QED BY <2>3, <2>4 DEF CountsBounded
<1>3. ASSUME NEW t \in Tasks, Freed(t) PROVE CountsBounded'
  <2>1. \A m \in Requests : all'[m] > 0 => all[m] > 0
    BY <1>3, <1>t DEF Freed, ReleaseLua
  <2>2. \A u \in Users, m \in Requests : ofUser'[u][m] > 0 => ofUser[u][m] > 0
    BY <1>3, <1>t DEF Freed, ReleaseLua
  <2> QED BY <2>1, <2>2, <1>1
<1>4. ASSUME NEW u \in Users, PrunedFor(u) PROVE CountsBounded'
  <2>1. \A m \in Requests : all'[m] > 0 => all[m] > 0
    BY <1>4, <1>t DEF PrunedFor, Pruned
  <2>2. \A v \in Users, m \in Requests : ofUser'[v][m] > 0 => ofUser[v][m] > 0
    BY <1>4, <1>t DEF PrunedFor, Pruned
  <2> QED BY <2>1, <2>2, <1>1
<1>5. CASE Dropped
  BY <1>5 DEF Dropped, slots, CountsBounded
<1>6. CASE Elapsed
  <2>1. \A m \in Requests : all'[m] > 0 => all[m] > 0
    BY <1>6, <1>t DEF Elapsed, Tick, Less
  <2>2. \A u \in Users, m \in Requests : ofUser'[u][m] > 0 => ofUser[u][m] > 0
    BY <1>6, <1>t DEF Elapsed, Tick, Less
  <2> QED BY <2>1, <2>2, <1>1
<1> QED
  BY <1>2, <1>3, <1>4, <1>5, <1>6, StepEffect

LEMMA CountsHold == Spec => []CountsBounded
<1>1. Init => CountsBounded
  <2> SUFFICES ASSUME Init PROVE CountsBounded
    OBVIOUS
  <2>1. Counted(all) = {} /\ \A u \in Users : Counted(ofUser[u]) = {}
    BY DEF Init, Counted, Absent
  <2> QED BY <2>1, FS_EmptySet, LimitsAssumption DEF CountsBounded
<1>2. TypeOK /\ AgreementInv /\ CountsBounded /\ [Next]_vars => CountsBounded'
  BY CountsStep DEF AgreementInv
<1> QED
  BY <1>1, <1>2, TypeCorrect, AgreementHolds, PTL DEF Spec

(* As long as the places agree, the owners are no more than what Redis      *)
(* counts: each has a member of its own.                                    *)
LEMMA OwnersAreCounted ==
  ASSUME TypeOK, Agreement
  PROVE  /\ IsFiniteSet(Holders) /\ Cardinality(Holders) \in Nat
         /\ Cardinality(Holders) <= Cardinality(Counted(all))
         /\ \A u \in Users :
              /\ Cardinality(HoldersOf(u)) \in Nat
              /\ Cardinality(HoldersOf(u)) <= Cardinality(Counted(ofUser[u]))
<1> USE TasksAssumption
<1>1. ASSUME NEW S \in SUBSET Holders, NEW z,
             \A t \in S : z[RequestOf[t]] > 0
      PROVE  /\ IsFiniteSet(S) /\ Cardinality(S) \in Nat
             /\ Cardinality(S) <= Cardinality(Counted(z))
  <2> DEFINE f == [t \in S |-> RequestOf[t]]
  <2>1. S \subseteq Tasks
    BY DEF Holders
  <2>2. f \in [S -> Counted(z)]
    BY <1>1, <2>1 DEF Counted
  <2>3. \A s, t \in S : f[s] = f[t] => s = t
    BY DEF Agreement, OwnersDiffer
  <2>4. f \in Injection(S, Counted(z))
    BY <2>2, <2>3 DEF Injection, IsInjective
  <2>5. IsFiniteSet(S) /\ Cardinality(S) <= Cardinality(Counted(z))
    BY <2>4, CountedFinite, FS_Injection
  <2> QED BY <2>5, FS_CardinalityType
<1>2. \A t \in Holders : all[RequestOf[t]] > 0
  BY DEF Agreement, OwnersCounted
<1>3. ASSUME NEW u \in Users
      PROVE  /\ HoldersOf(u) \in SUBSET Holders
             /\ \A t \in HoldersOf(u) : ofUser[u][RequestOf[t]] > 0
  BY DEF HoldersOf, Agreement, OwnersCounted
<1> QED BY <1>1, <1>2, <1>3

(* LimitRespected is an invariant: no crash, lost reply or late release     *)
(* lets more queries run than the limits allow, and none at all makes Redis *)
(* count more.                                                              *)
THEOREM LimitsHold == Spec => []LimitRespected
<1>1. TypeOK /\ AgreementInv /\ CountsBounded => LimitRespected
  <2> SUFFICES ASSUME TypeOK, AgreementInv, CountsBounded
               PROVE  LimitRespected
    OBVIOUS
  <2>1. ZCard(Pruned(all)) <= MaxGlobal
    BY ZCardCounts DEF TypeOK, CountsBounded
  <2>2. ASSUME ~overran
        PROVE  /\ Cardinality(Holders) <= MaxGlobal
               /\ \A u \in Users : Cardinality(HoldersOf(u)) <= MaxPerUser
    <3>1. Agreement
      BY <2>2 DEF AgreementInv
    <3>2. Cardinality(Holders) <= MaxGlobal
      BY <3>1, OwnersAreCounted, CountedFinite, LimitsAssumption
         DEF CountsBounded
    <3>3. ASSUME NEW u \in Users
          PROVE  Cardinality(HoldersOf(u)) <= MaxPerUser
      BY <3>1, OwnersAreCounted, CountedFinite, LimitsAssumption
         DEF CountsBounded
    <3> QED BY <3>2, <3>3
  <2> QED BY <2>1, <2>2 DEF LimitRespected
<1> QED
  BY <1>1, TypeCorrect, AgreementHolds, CountsHold, PTL

(* The controller implements the slot pool until a query outlives its       *)
(* lease: a slot is taken only while both limits have room for it, counting *)
(* the queries that really run in all the workers.                          *)
THEOREM ImplementsPool == Spec => PoolSpec
<1> DEFINE held == IF overran THEN {} ELSE Holders
<1>1. Init => Pool!Init
  BY DEF Init, Pool!Init, Holders
<1>2. TypeOK /\ AgreementInv /\ [Next]_vars => [Pool!Next]_held
  <2> SUFFICES ASSUME TypeOK, AgreementInv, [Next]_vars
               PROVE  held' = held \/ Pool!Next
    OBVIOUS
  <2>1. ASSUME NEW S \in SUBSET held, held' = held \ S PROVE Pool!Next
    BY <2>1 DEF Pool!Next, Pool!GiveBack
  <2>2. ASSUME overran' PROVE Pool!Next
    <3>1. held' = held \ held
      BY <2>2
    <3> QED BY <2>1, <3>1
  <2>3. ASSUME ~overran, NEW t \in Tasks, Granted(t)
        PROVE  held' = held \/ Pool!Next
    <3>1. held = Holders /\ held' = Holders'
      BY <2>3 DEF Granted
    <3>2. CASE Holders' = Holders
      BY <3>1, <3>2
    <3>3. CASE Holders' = Holders \cup {t}
      <4>1. Agreement
        BY <2>3 DEF AgreementInv
      <4>2. UserOf[t] \in Users
        BY TasksAssumption
      <4>3. /\ Cardinality(Counted(all)) < MaxGlobal
            /\ Cardinality(Counted(ofUser[UserOf[t]])) < MaxPerUser
        BY <2>3, RoomMeans DEF Granted, AcquireLua
      <4>4. /\ Cardinality(Holders) < MaxGlobal
            /\ Cardinality(HoldersOf(UserOf[t])) < MaxPerUser
        BY <4>1, <4>2, <4>3, OwnersAreCounted, CountedFinite, LimitsAssumption
      <4>5. Pool!HeldBy(Holders, UserOf[t]) = HoldersOf(UserOf[t])
        BY DEF Pool!HeldBy, HoldersOf
      <4>6. \A S : Pool!Cardinality(S) = Cardinality(S)
        BY DEF Pool!Cardinality, Cardinality
      <4>7. t \notin Holders
        BY <2>3 DEF Granted
      <4>8. Pool!Acquire(t)
        BY <3>1, <3>3, <4>4, <4>5, <4>6, <4>7 DEF Pool!Acquire
      <4> QED BY <4>8 DEF Pool!Next
    <3> QED BY <2>3, <3>2, <3>3 DEF Granted
  <2>4. ASSUME NEW t \in Tasks, Freed(t) PROVE held' = held \/ Pool!Next
    <3>1. CASE overran
      BY <2>4, <3>1 DEF Freed
    <3>2. CASE ~overran
      <4>1. {t} \in SUBSET held /\ held' = held \ {t}
        BY <2>4, <3>2 DEF Freed
      <4> QED BY <2>1, <4>1
    <3> QED BY <3>1, <3>2
  <2>5. ASSUME NEW u, PrunedFor(u) PROVE held' = held
    BY <2>5 DEF PrunedFor
  <2>6. CASE Dropped
    <3>1. (held \ held') \in SUBSET held /\ held' = held \ (held \ held')
      BY <2>6 DEF Dropped
    <3> QED BY <2>1, <3>1
  <2>7. CASE Elapsed
    <3>1. held' = held \/ overran'
      BY <2>7 DEF Elapsed, Tick
    <3> QED BY <2>2, <3>1
  <2>8. \/ \E t \in Tasks : Granted(t) \/ Freed(t) \/ PrunedFor(UserOf[t])
        \/ Dropped
        \/ Elapsed
    BY StepEffect DEF AgreementInv
  <2>9. overran => held' = held \/ overran'
    BY <2>8 DEF Granted, Freed, PrunedFor, Dropped, Elapsed, Tick
  <2> QED
    BY <2>2, <2>3, <2>4, <2>5, <2>6, <2>7, <2>8, <2>9
<1> QED
  BY <1>1, <1>2, TypeCorrect, AgreementHolds, PTL DEF Spec, PoolSpec, Pool!Spec
=============================================================================
