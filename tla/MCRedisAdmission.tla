-------------------------- MODULE MCRedisAdmission --------------------------
(* A small instance of RedisAdmission: two workers, four calls. t1 and t2   *)
(* carry the same request id, on two workers and with two user ids (both    *)
(* are the client's to choose); t1 and t3 compete for one user's slot, and  *)
(* t2, t3 and t4 for two slots in all. A lease lasts twice as long as a     *)
(* dedup key, as in conf/app_config.example.yaml (60 + 2 s and 30 s).       *)
EXTENDS RedisAdmission, TLC

CONSTANTS t1, t2, t3, t4, u1, u2, u3, r1, r2, r3, w1, w2

MCWorkerOf == (t1 :> w1) @@ (t2 :> w2) @@ (t3 :> w1) @@ (t4 :> w2)
MCUserOf == (t1 :> u1) @@ (t2 :> u2) @@ (t3 :> u1) @@ (t4 :> u3)
MCRequestOf == (t1 :> r1) @@ (t2 :> r1) @@ (t3 :> r2) @@ (t4 :> r3)
=============================================================================
