------------------------ MODULE LocalAdmissionProofs ------------------------
(***************************************************************************)
(* Proofs about LocalAdmission for every set of tasks, users and keys and  *)
(* every pair of limits: its types, that the limits hold whatever keys the *)
(* callers use, that no waiter sleeps while there is room for it, and that *)
(* the controller implements the slot pool.                                *)
(***************************************************************************)
EXTENDS LocalAdmission, FiniteSetTheorems, TLAPS

(* TypeOK is an invariant: every variable keeps its type, and a call that  *)
(* waits for or owns a lease has a key.                                    *)
THEOREM TypeCorrect == Spec => []TypeOK
<1>1. Init => TypeOK
  <2> SUFFICES ASSUME Init PROVE TypeOK
    OBVIOUS
  <2>1. accepting \in BOOLEAN /\ clashed \in BOOLEAN
    BY Zenon DEF Init
  <2>2. \A t \in Tasks : pc[t] \notin Owning \cup {"sleeping", "woken"}
    BY DEF Init, Owning
  <2> QED
    BY <2>1, <2>2 DEF Init, TypeOK, PCs
<1>2. TypeOK /\ [Next]_vars => TypeOK'
  <2> SUFFICES ASSUME TypeOK, [Next]_vars PROVE TypeOK'
    OBVIOUS
  <2> USE UserOfAssumption, NoKeyAssumption DEF TypeOK, PCs, Owning
  <2>1. ASSUME NEW t \in Tasks, NEW k \in Keys, Admit(t, k),
               pc[t] \in {"new", "woken"}, UNCHANGED <<accepting, phase, leaked>>
        PROVE  TypeOK'
    BY <2>1 DEF Admit, CanAdmit
  <2>2. ASSUME NEW t \in Tasks, Enter(t) PROVE TypeOK'
    <3> PICK k \in Keys : Refuse(t, k) \/ AcquireNow(t, k) \/ WaitForSlot(t, k)
      BY <2>2 DEF Enter
    <3>1. CASE Refuse(t, k)
      BY <3>1 DEF Refuse
    <3>2. CASE AcquireNow(t, k)
      BY <3>2, <2>1 DEF AcquireNow, MayEnter
    <3>3. CASE WaitForSlot(t, k)
      BY <3>3 DEF WaitForSlot, MayEnter
    <3> QED BY <3>1, <3>2, <3>3
  <2>3. ASSUME NEW t \in Tasks, Wake(t) PROVE TypeOK'
    <3>1. CASE WakeAdmit(t)
      BY <3>1, <2>1 DEF WakeAdmit
    <3>2. CASE WakeSleep(t)
      BY <3>2 DEF WakeSleep
    <3> QED BY <2>3, <3>1, <3>2 DEF Wake
  <2>4. ASSUME NEW t \in Tasks, GiveUp(t) PROVE TypeOK'
    BY <2>4 DEF GiveUp
  <2>5. ASSUME NEW t \in Tasks, StartGraph(t) PROVE TypeOK'
    BY <2>5 DEF StartGraph
  <2>6. ASSUME NEW t \in Tasks, GraphDone(t) PROVE TypeOK'
    BY <2>6 DEF GraphDone
  <2>7. ASSUME NEW t \in Tasks, Release(t) PROVE TypeOK'
    BY <2>7 DEF Release, NotifyAll, OneLess
  <2>11. ASSUME NEW t \in Tasks, ReturnsUnreleased(t) PROVE TypeOK'
    BY <2>11 DEF ReturnsUnreleased
  <2>8. CASE BeginShutdown
    BY <2>8 DEF BeginShutdown, NotifyAll
  <2>9. CASE ResetAndExit
    BY <2>9 DEF ResetAndExit
  <2>10. CASE UNCHANGED vars
    BY <2>10 DEF vars
  <2> QED
    BY <2>2, <2>3, <2>4, <2>5, <2>6, <2>7, <2>8, <2>9, <2>10, <2>11
    DEF Next
<1> QED
  BY <1>1, <1>2, PTL DEF Spec

-----------------------------------------------------------------------------
(* What one step does to the owners and to the counters.                   *)
Gain(t) ==
  /\ t \notin Holders
  /\ CanAdmit(t)
  /\ Holders' = Holders \cup {t}
  /\ globalActive' = globalActive + 1
  /\ userActive' = [userActive EXCEPT ![UserOf[t]] = @ + 1]

Loss(t) ==
  /\ t \in Holders
  /\ Holders' = Holders \ {t}
  /\ \/ /\ globalActive' = OneLess(globalActive)
        /\ userActive' = [userActive EXCEPT ![UserOf[t]] = OneLess(@)]
     \/ UNCHANGED <<globalActive, userActive>>

Keep == UNCHANGED <<Holders, globalActive, userActive>>

Clear ==
  /\ Holders' = {}
  /\ globalActive' = 0
  /\ userActive' = [u \in Users |-> 0]

(* Every step gains one owner within the limits, loses one, leaves the      *)
(* owners and the counters alone, or ends the process.                      *)
LEMMA StepEffect ==
  ASSUME TypeOK, [Next]_vars
  PROVE  \/ \E t \in Tasks : Gain(t) \/ Loss(t)
         \/ Keep
         \/ Clear
<1> USE UserOfAssumption DEF TypeOK, PCs, Owning, Holders
<1>1. ASSUME NEW t \in Tasks, NEW k \in Keys,
             pc[t] \in {"new", "woken"}, Admit(t, k)
      PROVE  Gain(t)
  BY <1>1 DEF Admit, Gain
<1>2. ASSUME NEW t \in Tasks, Enter(t) PROVE Gain(t) \/ Keep
  <2> PICK k \in Keys : Refuse(t, k) \/ AcquireNow(t, k) \/ WaitForSlot(t, k)
    BY <1>2 DEF Enter
  <2>1. CASE Refuse(t, k)
    BY <2>1 DEF Refuse, Keep
  <2>2. CASE AcquireNow(t, k)
    BY <2>2, <1>1 DEF AcquireNow, MayEnter
  <2>3. CASE WaitForSlot(t, k)
    BY <2>3 DEF WaitForSlot, MayEnter, Keep
  <2> QED BY <2>1, <2>2, <2>3
<1>3. ASSUME NEW t \in Tasks, Wake(t) PROVE Gain(t) \/ Keep
  <2>1. CASE WakeAdmit(t)
    BY <2>1, <1>1 DEF WakeAdmit
  <2>2. CASE WakeSleep(t)
    BY <2>2 DEF WakeSleep, Keep
  <2> QED BY <1>3, <2>1, <2>2 DEF Wake
<1>4. ASSUME NEW t \in Tasks, GiveUp(t) \/ StartGraph(t) \/ GraphDone(t)
      PROVE  Keep
  BY <1>4 DEF GiveUp, StartGraph, GraphDone, Keep
<1>5. ASSUME NEW t \in Tasks, Release(t) PROVE Loss(t)
  <2>1. Holders' = Holders \ {t}
    BY <1>5 DEF Release, NotifyAll
  <2> QED BY <1>5, <2>1 DEF Release, Loss
<1>9. ASSUME NEW t \in Tasks, ReturnsUnreleased(t) PROVE Loss(t)
  BY <1>9 DEF ReturnsUnreleased, Loss
<1>6. CASE BeginShutdown
  BY <1>6 DEF BeginShutdown, NotifyAll, Keep
<1>7. CASE ResetAndExit
  BY <1>7 DEF ResetAndExit, Clear
<1>8. CASE UNCHANGED vars
  BY <1>8 DEF vars, Keep
<1> QED
  BY <1>2, <1>3, <1>4, <1>5, <1>6, <1>7, <1>8, <1>9 DEF Next

(* Sets of tasks, and the tasks of one user among them, are finite; how     *)
(* their cardinalities change when one task joins or leaves.                *)
LEMMA TasksFinite ==
  ASSUME NEW S, S \subseteq Tasks
  PROVE  /\ IsFiniteSet(S) /\ Cardinality(S) \in Nat
         /\ \A u : IsFiniteSet(Of(S, u)) /\ Cardinality(Of(S, u)) \in Nat
<1>1. IsFiniteSet(S)
  BY TasksAssumption, FS_Subset
<1>2. ASSUME NEW u PROVE IsFiniteSet(Of(S, u))
  BY <1>1, FS_Subset DEF Of
<1> QED BY <1>1, <1>2, FS_CardinalityType

LEMMA JoinCounts ==
  ASSUME NEW S, S \subseteq Tasks, NEW t \in Tasks, t \notin S
  PROVE  /\ Cardinality(S \cup {t}) = Cardinality(S) + 1
         /\ \A u : Cardinality(Of(S \cup {t}, u)) =
                    Cardinality(Of(S, u)) + (IF u = UserOf[t] THEN 1 ELSE 0)
<1>1. Cardinality(S \cup {t}) = Cardinality(S) + 1
  BY TasksFinite, FS_AddElement
<1>2. ASSUME NEW u
      PROVE Cardinality(Of(S \cup {t}, u)) =
              Cardinality(Of(S, u)) + (IF u = UserOf[t] THEN 1 ELSE 0)
  <2>1. CASE u = UserOf[t]
    <3>1. Of(S \cup {t}, u) = Of(S, u) \cup {t} /\ t \notin Of(S, u)
      BY <2>1 DEF Of
    <3> QED BY <2>1, <3>1, TasksFinite, FS_AddElement
  <2>2. CASE u # UserOf[t]
    <3>1. Of(S \cup {t}, u) = Of(S, u)
      BY <2>2 DEF Of
    <3> QED BY <2>2, <3>1, TasksFinite
  <2> QED BY <2>1, <2>2
<1> QED BY <1>1, <1>2

LEMMA LeaveCounts ==
  ASSUME NEW S, S \subseteq Tasks, NEW t \in S
  PROVE  /\ Cardinality(S) >= 1
         /\ Cardinality(S \ {t}) = Cardinality(S) - 1
         /\ Cardinality(Of(S, UserOf[t])) >= 1
         /\ \A u : Cardinality(Of(S \ {t}, u)) =
                    Cardinality(Of(S, u)) - (IF u = UserOf[t] THEN 1 ELSE 0)
<1>1. Cardinality(S \ {t}) = Cardinality(S) - 1
  BY TasksFinite, FS_RemoveElement
<1>2. ASSUME NEW u
      PROVE Cardinality(Of(S \ {t}, u)) =
              Cardinality(Of(S, u)) - (IF u = UserOf[t] THEN 1 ELSE 0)
  <2>1. CASE u = UserOf[t]
    <3>1. Of(S \ {t}, u) = Of(S, u) \ {t} /\ t \in Of(S, u)
      BY <2>1 DEF Of
    <3> QED BY <2>1, <3>1, TasksFinite, FS_RemoveElement
  <2>2. CASE u # UserOf[t]
    <3>1. Of(S \ {t}, u) = Of(S, u)
      BY <2>2 DEF Of
    <3> QED BY <2>2, <3>1, TasksFinite
  <2> QED BY <2>1, <2>2
<1>3. Cardinality(S) >= 1
  <2>1. Cardinality(S) # 0
    BY TasksFinite, FS_EmptySet
  <2> QED BY <2>1, TasksFinite
<1>4. Cardinality(Of(S, UserOf[t])) >= 1
  <2>1. t \in Of(S, UserOf[t])
    BY DEF Of
  <2>2. Cardinality(Of(S, UserOf[t])) # 0
    BY <2>1, TasksFinite, FS_EmptySet
  <2> QED BY <2>2, TasksFinite
<1> QED BY <1>1, <1>2, <1>3, <1>4

(* The same for the owners.                                                 *)
LEMMA CardinalityTypes ==
  /\ Cardinality(Holders) \in Nat
  /\ \A u : Cardinality(HoldersOf(u)) \in Nat
<1>1. Holders \subseteq Tasks
  BY DEF Holders
<1> QED BY <1>1, TasksFinite DEF HoldersOf

LEMMA GainCounts ==
  ASSUME NEW t \in Tasks, t \notin Holders, Holders' = Holders \cup {t}
  PROVE  /\ Cardinality(Holders') = Cardinality(Holders) + 1
         /\ \A u : Cardinality(HoldersOf(u)') =
                    Cardinality(HoldersOf(u)) + (IF u = UserOf[t] THEN 1 ELSE 0)
<1>1. Holders \subseteq Tasks
  BY DEF Holders
<1>2. \A u : HoldersOf(u)' = Of(Holders \cup {t}, u)
  BY DEF HoldersOf, Of
<1> QED BY <1>1, <1>2, JoinCounts DEF HoldersOf

LEMMA LossCounts ==
  ASSUME NEW t \in Holders, Holders' = Holders \ {t}
  PROVE  /\ Cardinality(Holders) >= 1
         /\ Cardinality(Holders') = Cardinality(Holders) - 1
         /\ Cardinality(HoldersOf(UserOf[t])) >= 1
         /\ \A u : Cardinality(HoldersOf(u)') =
                    Cardinality(HoldersOf(u)) - (IF u = UserOf[t] THEN 1 ELSE 0)
<1>1. Holders \subseteq Tasks
  BY DEF Holders
<1>2. \A u : HoldersOf(u)' = Of(Holders \ {t}, u)
  BY DEF HoldersOf, Of
<1> QED BY <1>1, <1>2, LeaveCounts DEF HoldersOf

-----------------------------------------------------------------------------
(* The strengthening of LimitRespected: the counters never fall below the   *)
(* number of owners. They may exceed it: after a clash a release can be a   *)
(* no-op.                                                                   *)
CountersCover ==
  /\ Cardinality(Holders) <= globalActive
  /\ globalActive <= MaxGlobal
  /\ \A u \in Users : /\ Cardinality(HoldersOf(u)) <= userActive[u]
                      /\ userActive[u] <= MaxPerUser

LEMMA CoverInit == Init => CountersCover
<1> SUFFICES ASSUME Init PROVE CountersCover
  OBVIOUS
<1>1. Holders = {} /\ \A u : HoldersOf(u) = {}
  BY DEF Init, Holders, HoldersOf, Of, Owning
<1> QED
  BY <1>1, FS_EmptySet, LimitsAssumption DEF Init, CountersCover

LEMMA CoverStep ==
  ASSUME TypeOK, CountersCover, [Next]_vars
  PROVE  CountersCover'
<1> USE UserOfAssumption, LimitsAssumption DEF TypeOK
<1>1. ASSUME NEW t \in Tasks, Gain(t) PROVE CountersCover'
  <2>1. /\ Cardinality(Holders') <= globalActive'
        /\ globalActive' <= MaxGlobal
    <3>1. Cardinality(Holders') = Cardinality(Holders) + 1
      BY <1>1, GainCounts DEF Gain
    <3> QED BY <1>1, <3>1, CardinalityTypes DEF Gain, CanAdmit, CountersCover
  <2>2. ASSUME NEW u \in Users
        PROVE /\ Cardinality(HoldersOf(u)') <= userActive'[u]
              /\ userActive'[u] <= MaxPerUser
    <3>1. Cardinality(HoldersOf(u)') =
            Cardinality(HoldersOf(u)) + (IF u = UserOf[t] THEN 1 ELSE 0)
      BY <1>1, GainCounts DEF Gain
    <3> QED BY <1>1, <3>1, CardinalityTypes DEF Gain, CanAdmit, CountersCover
  <2> QED BY <2>1, <2>2 DEF CountersCover
<1>2. ASSUME NEW t \in Tasks, Loss(t) PROVE CountersCover'
  <2>1. /\ Cardinality(Holders') <= globalActive'
        /\ globalActive' <= MaxGlobal
    <3>1. /\ Cardinality(Holders) \in Nat /\ Cardinality(Holders) >= 1
          /\ Cardinality(Holders') = Cardinality(Holders) - 1
      BY <1>2, LossCounts, CardinalityTypes DEF Loss
    <3>2. globalActive' = OneLess(globalActive) \/ globalActive' = globalActive
      BY <1>2 DEF Loss
    <3> QED BY <3>1, <3>2 DEF OneLess, CountersCover
  <2>2. ASSUME NEW u \in Users
        PROVE /\ Cardinality(HoldersOf(u)') <= userActive'[u]
              /\ userActive'[u] <= MaxPerUser
    BY <1>2, LossCounts, CardinalityTypes DEF Loss, OneLess, CountersCover
  <2> QED BY <2>1, <2>2 DEF CountersCover
<1>3. CASE Keep
  <2>1. \A u : HoldersOf(u)' = HoldersOf(u)
    BY <1>3 DEF Keep, HoldersOf, Of
  <2> QED BY <1>3, <2>1 DEF Keep, CountersCover
<1>4. CASE Clear
  <2>1. \A u : HoldersOf(u)' = {}
    BY <1>4 DEF Clear, HoldersOf, Of
  <2>2. Cardinality(Holders') = 0 /\ \A u : Cardinality(HoldersOf(u)') = 0
    BY <1>4, <2>1, FS_EmptySet DEF Clear
  <2>3. globalActive' = 0 /\ \A u \in Users : userActive'[u] = 0
    BY <1>4 DEF Clear
  <2> QED BY <2>2, <2>3 DEF CountersCover
<1> QED BY <1>1, <1>2, <1>3, <1>4, StepEffect

(* LimitRespected is an invariant for every choice of keys and limits: the  *)
(* counters the code tests never fall below what is really owned.           *)
THEOREM LimitsHold == Spec => []LimitRespected
<1>1. Init => CountersCover
  BY CoverInit
<1>2. TypeOK /\ CountersCover /\ [Next]_vars => CountersCover'
  BY CoverStep
<1>3. TypeOK /\ CountersCover => LimitRespected
  BY CardinalityTypes, LimitsAssumption DEF TypeOK, CountersCover, LimitRespected
<1> QED
  BY <1>1, <1>2, <1>3, TypeCorrect, PTL DEF Spec

(* The controller implements the slot pool: each of its steps is an         *)
(* acquisition within the limits, a slot given back, or invisible.          *)
THEOREM ImplementsPool == Spec => PoolSpec
<1>1. Init => Pool!Init
  BY DEF Init, Pool!Init, Holders, Owning
<1>2. TypeOK /\ CountersCover /\ [Next]_vars => [Pool!Next]_Holders
  <2> SUFFICES ASSUME TypeOK, CountersCover, [Next]_vars
               PROVE  [Pool!Next]_Holders
    OBVIOUS
  <2>1. ASSUME NEW t \in Tasks, Gain(t) PROVE Pool!Acquire(t)
    <3>1. UserOf[t] \in Users
      BY UserOfAssumption
    <3>2. Cardinality(Holders) < MaxGlobal
      BY <2>1, CardinalityTypes, LimitsAssumption
         DEF Gain, CanAdmit, CountersCover, TypeOK
    <3>3. Cardinality(HoldersOf(UserOf[t])) < MaxPerUser
      <4>1. userActive[UserOf[t]] < MaxPerUser
        BY <2>1 DEF Gain, CanAdmit
      <4>2. Cardinality(HoldersOf(UserOf[t])) <= userActive[UserOf[t]]
        BY <3>1 DEF CountersCover
      <4>3. userActive[UserOf[t]] \in Nat
        BY <3>1 DEF TypeOK
      <4> QED
        BY <4>1, <4>2, <4>3, CardinalityTypes, LimitsAssumption
    <3>4. Pool!HeldBy(Holders, UserOf[t]) = HoldersOf(UserOf[t])
      BY DEF Pool!HeldBy, HoldersOf, Of
    <3>5. \A S : Pool!Cardinality(S) = Cardinality(S)
      BY DEF Pool!Cardinality, Cardinality
    <3> QED
      BY <2>1, <3>2, <3>3, <3>4, <3>5 DEF Gain, Pool!Acquire
  <2>2. ASSUME NEW t \in Tasks, Loss(t) PROVE Pool!Next
    <3>1. {t} \in SUBSET Holders /\ Pool!GiveBack({t})
      BY <2>2 DEF Loss, Pool!GiveBack
    <3> QED BY <3>1 DEF Pool!Next
  <2>3. CASE Clear
    <3>1. Pool!GiveBack(Holders)
      BY <2>3 DEF Clear, Pool!GiveBack
    <3> QED BY <3>1 DEF Pool!Next
  <2>4. CASE Keep
    BY <2>4 DEF Keep
  <2> QED BY <2>1, <2>2, <2>3, <2>4, StepEffect DEF Pool!Next
<1>3. Init => CountersCover
  BY CoverInit
<1>4. TypeOK /\ CountersCover /\ [Next]_vars => CountersCover'
  BY CoverStep
<1> QED
  BY <1>1, <1>2, <1>3, <1>4, TypeCorrect, PTL DEF Spec, PoolSpec, Pool!Spec

(* No waiter sleeps while there is room for it: room appears only in a      *)
(* release or at exit, and both wake everybody.                             *)
THEOREM NoWakeupIsLost == Spec => []NoLostWakeup
<1>1. Init => NoLostWakeup
  BY DEF Init, NoLostWakeup
<1>2. TypeOK /\ NoLostWakeup /\ [Next]_vars => NoLostWakeup'
  <2> SUFFICES ASSUME TypeOK, NoLostWakeup, [Next]_vars PROVE NoLostWakeup'
    OBVIOUS
  <2> USE UserOfAssumption, LimitsAssumption
      DEF TypeOK, PCs, Owning, NoLostWakeup, CanAdmit
  <2>1. ASSUME NEW t \in Tasks, NEW k \in Keys, Admit(t, k)
        PROVE  NoLostWakeup'
    BY <2>1 DEF Admit
  <2>2. ASSUME NEW t \in Tasks, Enter(t) PROVE NoLostWakeup'
    <3> PICK k \in Keys : Refuse(t, k) \/ AcquireNow(t, k) \/ WaitForSlot(t, k)
      BY <2>2 DEF Enter
    <3>1. CASE Refuse(t, k)
      BY <3>1 DEF Refuse
    <3>2. CASE AcquireNow(t, k)
      BY <3>2, <2>1 DEF AcquireNow
    <3>3. CASE WaitForSlot(t, k)
      BY <3>3 DEF WaitForSlot
    <3> QED BY <3>1, <3>2, <3>3
  <2>3. ASSUME NEW t \in Tasks, Wake(t) PROVE NoLostWakeup'
    <3>1. CASE WakeAdmit(t)
      <4>1. key[t] \in Keys
        BY <3>1 DEF WakeAdmit
      <4> QED BY <3>1, <4>1, <2>1 DEF WakeAdmit
    <3>2. CASE WakeSleep(t)
      BY <3>2 DEF WakeSleep
    <3> QED BY <2>3, <3>1, <3>2 DEF Wake
  <2>4. ASSUME NEW t \in Tasks, GiveUp(t) \/ StartGraph(t) \/ GraphDone(t)
        PROVE  NoLostWakeup'
    BY <2>4 DEF GiveUp, StartGraph, GraphDone
  <2>5. ASSUME NEW t \in Tasks, Release(t) PROVE NoLostWakeup'
    BY <2>5 DEF Release, NotifyAll
  <2>9. ASSUME NEW t \in Tasks, ReturnsUnreleased(t) PROVE NoLostWakeup'
    BY <2>9 DEF ReturnsUnreleased
  <2>6. CASE BeginShutdown
    BY <2>6 DEF BeginShutdown, NotifyAll
  <2>7. CASE ResetAndExit
    BY <2>7 DEF ResetAndExit
  <2>8. CASE UNCHANGED vars
    BY <2>8 DEF vars
  <2> QED
    BY <2>2, <2>3, <2>4, <2>5, <2>6, <2>7, <2>8, <2>9 DEF Next
<1> QED
  BY <1>1, <1>2, TypeCorrect, PTL DEF Spec

-----------------------------------------------------------------------------
(* The strengthening of CountersExact: until a clash, no two of those who   *)
(* are counted have the same key, which is what makes every release count   *)
(* down.                                                                    *)
CountsAre ==
  /\ globalActive = Cardinality(Charged)
  /\ \A u \in Users : userActive[u] = Cardinality(Of(Charged, u))

KeysAre ==
  /\ activeKeys = {key[t] : t \in Charged}
  /\ \A s, t \in Charged : key[s] = key[t] => s = t

LEMMA ExactStep ==
  ASSUME TypeOK, CountsAre, KeysAre, [Next]_vars, ~clashed'
  PROVE  CountsAre' /\ KeysAre'
<1> USE UserOfAssumption DEF TypeOK
<1>0. Charged \subseteq Tasks
  BY DEF Charged, Holders
<1>1. ASSUME NEW t \in Tasks, NEW k \in Keys, leaked' = leaked,
             pc[t] \in {"new", "woken"}, Admit(t, k)
      PROVE  CountsAre' /\ KeysAre'
  <2>1. t \notin Charged /\ Charged' = Charged \cup {t}
    BY <1>1 DEF Admit, Charged, Holders, Owning, PCs
  <2>2. CountsAre'
    <3>1. /\ Cardinality(Charged \cup {t}) = Cardinality(Charged) + 1
          /\ \A u : Cardinality(Of(Charged \cup {t}, u)) =
               Cardinality(Of(Charged, u)) + (IF u = UserOf[t] THEN 1 ELSE 0)
      BY <1>0, <2>1, JoinCounts
    <3>2. \A u : Of(Charged, u)' = Of(Charged \cup {t}, u)
      BY <2>1 DEF Of
    <3>3. globalActive' = Cardinality(Charged')
      BY <1>1, <2>1, <3>1 DEF Admit, CountsAre
    <3>4. ASSUME NEW u \in Users
          PROVE  userActive'[u] = Cardinality(Of(Charged, u)')
      <4>1. Cardinality(Of(Charged, u)') =
              userActive[u] + (IF u = UserOf[t] THEN 1 ELSE 0)
        BY <3>1, <3>2 DEF CountsAre
      <4> QED BY <1>1, <4>1 DEF Admit
    <3> QED BY <3>3, <3>4 DEF CountsAre
  <2>3. k \notin activeKeys
    BY <1>1 DEF Admit
  <2>4. \A s \in Charged : key'[s] = key[s] /\ key'[s] # k
    BY <1>0, <1>1, <2>1, <2>3 DEF Admit, KeysAre
  <2>5. key'[t] = k /\ activeKeys' = activeKeys \cup {k}
    BY <1>1 DEF Admit
  <2> QED BY <2>1, <2>2, <2>4, <2>5 DEF KeysAre
<1>2. ASSUME NEW t \in Tasks, Release(t)
      PROVE  CountsAre' /\ KeysAre'
  <2>1. t \in Charged /\ Charged' = Charged \ {t}
    BY <1>2 DEF Release, NotifyAll, Charged, Holders, Owning, PCs
  <2>2. key[t] \in activeKeys
    BY <2>1 DEF KeysAre
  <2>3. /\ globalActive' = OneLess(globalActive)
        /\ userActive' = [userActive EXCEPT ![UserOf[t]] = OneLess(@)]
        /\ activeKeys' = activeKeys \ {key[t]}
        /\ key' = key
    BY <1>2, <2>2 DEF Release
  <2>4. CountsAre'
    <3>1. /\ Cardinality(Charged) >= 1
          /\ Cardinality(Charged \ {t}) = Cardinality(Charged) - 1
          /\ Cardinality(Of(Charged, UserOf[t])) >= 1
          /\ \A u : Cardinality(Of(Charged \ {t}, u)) =
               Cardinality(Of(Charged, u)) - (IF u = UserOf[t] THEN 1 ELSE 0)
      BY <1>0, <2>1, LeaveCounts
    <3>2. \A u : Of(Charged, u)' = Of(Charged \ {t}, u)
      BY <2>1 DEF Of
    <3>3. globalActive' = Cardinality(Charged')
      BY <2>1, <2>3, <3>1 DEF OneLess, CountsAre
    <3>4. ASSUME NEW u \in Users
          PROVE  userActive'[u] = Cardinality(Of(Charged, u)')
      <4>1. Cardinality(Of(Charged, u)') =
              userActive[u] - (IF u = UserOf[t] THEN 1 ELSE 0)
        BY <3>1, <3>2 DEF CountsAre
      <4>2. userActive[UserOf[t]] >= 1
        BY <3>1 DEF CountsAre
      <4> QED BY <2>3, <4>1, <4>2 DEF OneLess
    <3> QED BY <3>3, <3>4 DEF CountsAre
  <2>5. KeysAre'
    BY <2>1, <2>3 DEF KeysAre
  <2> QED BY <2>4, <2>5
<1>3. ASSUME UNCHANGED <<Charged, globalActive, userActive, activeKeys>>,
             \A s \in Charged : key'[s] = key[s]
      PROVE  CountsAre' /\ KeysAre'
  <2>1. \A u : Of(Charged, u)' = Of(Charged, u)
    BY <1>3 DEF Of
  <2> QED BY <1>3, <2>1 DEF CountsAre, KeysAre
<1>4. ASSUME NEW t \in Tasks, Enter(t) PROVE CountsAre' /\ KeysAre'
  <2> PICK k \in Keys : Refuse(t, k) \/ AcquireNow(t, k) \/ WaitForSlot(t, k)
    BY <1>4 DEF Enter
  <2>1. CASE Refuse(t, k)
    BY <2>1, <1>3 DEF Refuse, Charged, Holders, Owning, PCs
  <2>2. CASE AcquireNow(t, k)
    BY <2>2, <1>1 DEF AcquireNow, MayEnter
  <2>3. CASE WaitForSlot(t, k)
    BY <2>3, <1>3 DEF WaitForSlot, MayEnter, Charged, Holders, Owning, PCs
  <2> QED BY <2>1, <2>2, <2>3
<1>5. ASSUME NEW t \in Tasks, Wake(t) PROVE CountsAre' /\ KeysAre'
  <2>1. CASE WakeAdmit(t)
    <3>1. key[t] \in Keys
      BY <2>1 DEF WakeAdmit
    <3> QED BY <2>1, <3>1, <1>1 DEF WakeAdmit
  <2>2. CASE WakeSleep(t)
    BY <2>2, <1>3 DEF WakeSleep, Charged, Holders, Owning, PCs
  <2> QED BY <1>5, <2>1, <2>2 DEF Wake
<1>6. ASSUME NEW t \in Tasks, GiveUp(t) \/ StartGraph(t) \/ GraphDone(t)
      PROVE  CountsAre' /\ KeysAre'
  BY <1>6, <1>3 DEF GiveUp, StartGraph, GraphDone, Charged, Holders, Owning, PCs
<1>7. ASSUME NEW t \in Tasks, ReturnsUnreleased(t)
      PROVE  CountsAre' /\ KeysAre'
  <2>1. Charged' = Charged
    BY <1>7 DEF ReturnsUnreleased, Charged, Holders, Owning, PCs
  <2> QED BY <1>7, <2>1, <1>3 DEF ReturnsUnreleased
<1>8. CASE BeginShutdown
  <2>1. Charged' = Charged
    BY <1>8 DEF BeginShutdown, NotifyAll, Charged, Holders, Owning, PCs
  <2> QED BY <1>8, <2>1, <1>3 DEF BeginShutdown
<1>9. CASE ResetAndExit
  <2>1. Charged' = {} /\ \A u : Of(Charged, u)' = {}
    BY <1>9 DEF ResetAndExit, Charged, Holders, Of, Owning
  <2>2. Cardinality(Charged') = 0 /\ \A u : Cardinality(Of(Charged, u)') = 0
    BY <2>1, FS_EmptySet
  <2>3. CountsAre'
    BY <1>9, <2>2 DEF ResetAndExit, CountsAre
  <2>4. KeysAre'
    BY <1>9, <2>1 DEF ResetAndExit, KeysAre
  <2> QED BY <2>3, <2>4
<1>10. CASE UNCHANGED vars
  BY <1>10, <1>3 DEF vars, Charged, Holders
<1> QED
  BY <1>2, <1>4, <1>5, <1>6, <1>7, <1>8, <1>9, <1>10 DEF Next

(* CountersExact is an invariant: as long as nobody was admitted with an    *)
(* active key, the only slots that are taken by nobody are those of calls   *)
(* that left query() before the try, and their keys stay refused with them. *)
THEOREM CountersAreExact == Spec => []CountersExact
<1> DEFINE Inv == ~clashed => CountsAre /\ KeysAre
<1>1. Init => Inv
  <2> SUFFICES ASSUME Init PROVE CountsAre /\ KeysAre
    OBVIOUS
  <2>1. Charged = {} /\ \A u : Of(Charged, u) = {}
    BY DEF Init, Charged, Holders, Of, Owning
  <2> QED
    BY <2>1, FS_EmptySet DEF Init, CountsAre, KeysAre
<1>2. TypeOK /\ Inv /\ [Next]_vars => Inv'
  <2> SUFFICES ASSUME TypeOK, Inv, [Next]_vars, ~clashed'
               PROVE  CountsAre' /\ KeysAre'
    OBVIOUS
  <2>1. ~clashed
    <3>1. CASE UNCHANGED clashed
      BY <3>1
    <3>2. ASSUME NEW t \in Tasks, NEW k, Admit(t, k) PROVE ~clashed
      BY <3>2 DEF Admit
    <3> QED
      BY <3>1, <3>2
         DEF Next, Enter, Wake, Refuse, AcquireNow, WaitForSlot, WakeAdmit,
             WakeSleep, GiveUp, StartGraph, GraphDone, Release,
             ReturnsUnreleased, BeginShutdown, ResetAndExit, vars
  <2> QED BY <2>1, ExactStep
<1>3. Inv => CountersExact
  BY DEF CountersExact, CountsAre, KeysAre
<1> QED
  BY <1>1, <1>2, <1>3, TypeCorrect, PTL DEF Spec
=============================================================================
