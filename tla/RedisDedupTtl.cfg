CONSTANTS
  t1 = t1
  t2 = t2
  t3 = t3
  t4 = t4
  u1 = u1
  u2 = u2
  u3 = u3
  r1 = r1
  r2 = r2
  r3 = r3
  w1 = w1
  w2 = w2
  Workers = {w1, w2}
  Tasks = {t1, t2, t3, t4}
  Users = {u1, u2, u3}
  Requests = {r1, r2, r3}
  WorkerOf <- MCWorkerOf
  UserOf <- MCUserOf
  RequestOf <- MCRequestOf
  MaxGlobal = 2
  MaxPerUser = 1
  LeaseTtl = 2
  DedupTtl = 1
  Stopping = {w1}
  Faults = {}
SPECIFICATION Spec
INVARIANT
  DedupKeysExpire
CHECK_DEADLOCK FALSE
