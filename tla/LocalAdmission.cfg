CONSTANTS
  t1 = t1
  t2 = t2
  t3 = t3
  t4 = t4
  u1 = u1
  u2 = u2
  Tasks = {t1, t2, t3, t4}
  Users = {u1, u2}
  Keys = {k1, k2, k3}
  NoKey = NoKey
  UserOf <- MCUserOf
  MaxGlobal = 2
  MaxPerUser = 1
SPECIFICATION FairSpec
INVARIANTS
  TypeOK
  LimitRespected
  CountersExact
  NoLostWakeup
PROPERTIES
  SlotsReachWaiters
  PoolSpec
CHECK_DEADLOCK FALSE
